---------------------------- MODULE Spec2Model ----------------------------
(***************************************************************************)
(* A model of the tool kit of src/src/file_tools.rs.                       *)
(*                                                                         *)
(* SpecText: the text mutators edit_file, edit_code_lines and insert_code. *)
(*   Every tool call is stateless apart from the file system, so a call is *)
(*   modelled from an arbitrary file system state (Init draws it) and      *)
(*   leaves its arguments, the content it read and its result in `last`.   *)
(* SpecJob: execute_job, step by step, with the child process, its two     *)
(*   pipes and the log file.  SpecSummary: the same from the end of a      *)
(*   child that wrote enough lines for the preview to be cut.              *)
(* SpecAnalyze: analyze_codebase, one call from any disk.                  *)
(* SpecContext: set_context and get_all_context, two callers, lock steps.  *)
(* SpecFiles: read_file, write_file and create_directory, call after call, *)
(*   on the paths d, d/e and d/e/f.                                        *)
(* SpecList: list_files, one call on any directory of a few entries.       *)
(*                                                                         *)
(* A string is a sequence of one-character strings; LF and CR stand for    *)
(* the line feed and the carriage return.                                  *)
(***************************************************************************)
EXTENDS Integers, Sequences, FiniteSets, TLC

VARIABLES
    fs,        \* path -> Absent, or [content, perm]: the files the tools touch
    tpc,       \* "idle": no call made yet; "returned": the call has returned
    last,      \* the call made: its arguments, what it read, what it returned
    job,       \* execute_job: its arguments, whether the script exists
    jpc,       \* execute_job: the statement the runner is at
    log_file,  \* the output file: whether it exists, and its entries
    child,     \* the child process: its state, its writes to come, its exit
    stdout_pipe,   \* the lines written to the child's stdout and not yet read
    stderr_pipe,   \* the same for its stderr
    output_lines,  \* the runner's output_lines
    error_lines,   \* the runner's error_lines
    jresult,   \* what execute_job returned, with exit_status on the way
    disk,      \* analyze_codebase: the entries under the root, and the root
    analyze,   \* analyze_codebase: its arguments
    apc,       \* analyze_codebase: "idle", "start" or "returned"
    aresult,   \* analyze_codebase: what the call returned
    context,   \* the context store: key -> content
    mutex,     \* the caller that holds the lock of the store, or None
    callers,   \* caller -> the call on the store it is in, and its result
    nodes,     \* read_file, write_file, create_directory: path -> what is there
    flast,     \* the last of these calls: its arguments and what it returned
    ldir,      \* list_files: the path listed, what it is and what it holds
    largs,     \* list_files: its arguments
    lresult    \* list_files: what the call returned

textVars == <<fs, tpc, last>>
jobVars == <<job, jpc, log_file, child, stdout_pipe, stderr_pipe, output_lines,
             error_lines, jresult>>
analyzeVars == <<disk, analyze, apc, aresult>>
contextVars == <<context, mutex, callers>>
filesVars == <<nodes, flast>>
listVars == <<ldir, largs, lresult>>
vars == <<fs, tpc, last, job, jpc, log_file, child, stdout_pipe, stderr_pipe,
          output_lines, error_lines, jresult, disk, analyze, apc, aresult,
          context, mutex, callers, nodes, flast, ldir, largs, lresult>>

---------------------------------------------------------------------------
(* Bounds of the model *)

MaxFileLen == 3
MaxArgLen == 2
MaxSearchLen == 2
MaxReplaceLen == 1
MaxLine == 3
MaxEmit == 3
PipeCap == 2
MaxWriteLen == 1

---------------------------------------------------------------------------
(* Strings *)

LF == "LF"
CR == "CR"

FileChars == {"a", LF, CR}
ArgChars == {"x", LF}
SearchChars == {"a", LF}

RECURSIVE StringsUpTo(_, _)
StringsUpTo(chars, n) ==
    IF n = 0 THEN {<<>>}
    ELSE LET shorter == StringsUpTo(chars, n - 1)
         IN  shorter \cup {Append(s, c) : s \in {t \in shorter : Len(t) = n - 1}, c \in chars}

\* The file and the call of the concrete example of the specification:
\* "line1\nline2\nline3" edited with (2, 2, "X\nY").
ExampleFile ==
    <<"l","i","n","e","1",LF,"l","i","n","e","2",LF,"l","i","n","e","3">>
ExampleNew == <<"X", LF, "Y">>
ExampleResult ==
    <<"l","i","n","e","1",LF,"X",LF,"Y",LF,"l","i","n","e","3">>

\* s[from..to) with 0-based byte offsets, as Rust's &s[from..to]
Slice(s, from, to) == SubSeq(s, from + 1, to)

\* Offset of the first LF of s at or after offset `from`, or -1
RECURSIVE FindLF(_, _)
FindLF(s, from) ==
    IF from >= Len(s) THEN -1
    ELSE IF s[from + 1] = LF THEN from
    ELSE FindLF(s, from + 1)

\* str::split_inclusive('\n'): the pieces of s, each ending with its LF; a
\* string that ends with LF has no empty last piece, the empty string has none.
RECURSIVE SplitInclusive(_)
SplitInclusive(s) ==
    IF s = <<>> THEN <<>>
    ELSE LET i == FindLF(s, 0)
         IN  IF i = -1 THEN <<s>>
             ELSE <<Slice(s, 0, i + 1)>> \o SplitInclusive(Slice(s, i + 1, Len(s)))

\* The map of str::lines: strip one trailing LF, and then one CR before it
LinesMap(piece) ==
    IF piece # <<>> /\ piece[Len(piece)] = LF
    THEN LET l == Slice(piece, 0, Len(piece) - 1)
         IN  IF l # <<>> /\ l[Len(l)] = CR THEN Slice(l, 0, Len(l) - 1) ELSE l
    ELSE piece

\* str::lines().collect()
Lines(s) ==
    LET pieces == SplitInclusive(s)
    IN  [i \in 1..Len(pieces) |-> LinesMap(pieces[i])]

JoinTrailing(ls, sep) ==
    LET RECURSIVE J(_)
        J(k) == IF k > Len(ls) THEN <<>> ELSE ls[k] \o sep \o J(k + 1)
    IN  J(1)

\* [String]::join(sep): the separator between the items only
Join(ls, sep) ==
    LET RECURSIVE J(_)
        J(k) == IF k > Len(ls) THEN <<>>
                ELSE IF k = Len(ls) THEN ls[k]
                ELSE ls[k] \o sep \o J(k + 1)
    IN  J(1)

\* does pat occur in s at offset i
MatchAt(s, pat, i) ==
    /\ i + Len(pat) <= Len(s)
    /\ Slice(s, i, i + Len(pat)) = pat

\* Offset of the first occurrence of pat in s at or after `from`, or -1
RECURSIVE FindFrom(_, _, _)
FindFrom(s, pat, from) ==
    IF from + Len(pat) > Len(s) THEN -1
    ELSE IF MatchAt(s, pat, from) THEN from
    ELSE FindFrom(s, pat, from + 1)

\* str::find(pat): Some(offset) or None (-1)
Find(s, pat) == FindFrom(s, pat, 0)

\* str::contains(pat)
Contains(s, pat) == Find(s, pat) # -1

\* str::match_indices(pat): the offsets of the non-overlapping occurrences,
\* left to right; the empty pattern matches at every offset 0..len.
RECURSIVE MatchIndicesFrom(_, _, _)
MatchIndicesFrom(s, pat, from) ==
    LET i == FindFrom(s, pat, from)
    IN  IF i = -1 THEN <<>>
        ELSE IF pat = <<>> THEN <<i>> \o MatchIndicesFrom(s, pat, i + 1)
        ELSE <<i>> \o MatchIndicesFrom(s, pat, i + Len(pat))

MatchIndices(s, pat) == MatchIndicesFrom(s, pat, 0)

\* str::matches(pat).count()
MatchCount(s, pat) == Len(MatchIndices(s, pat))

\* str::replace(from, to): copy up to each match, push `to`, skip the match
Replace(s, pat, to) ==
    LET idx == MatchIndices(s, pat)
        RECURSIVE R(_, _)
        R(k, last_end) ==
            IF k > Len(idx) THEN Slice(s, last_end, Len(s))
            ELSE Slice(s, last_end, idx[k]) \o to \o R(k + 1, idx[k] + Len(pat))
    IN  R(1, 0)

ReplaceFirstAt(content, index, search, replace) ==
    Slice(content, 0, index) \o replace \o Slice(content, index + Len(search), Len(content))

---------------------------------------------------------------------------
(* execute_job: what it works on *)

\* A script path: the directory it lies in, the stem and the extension of
\* its file name; ".." has no file name
ScriptPath(parent, stem, ext) == [parent |-> parent, stem |-> stem, ext |-> ext]
ScriptPaths ==
    {ScriptPath("jobs", "train", "py"), ScriptPath("", "run", "sh"),
     ScriptPath("jobs", "app", "js"), ScriptPath("jobs", "gen", "rb"),
     ScriptPath("jobs", "old", "pl"), ScriptPath("jobs", "tool", "exe"),
     ScriptPath("jobs", "run", ""), ScriptPath("jobs", "..", "")}

None == "None"

\* ExecuteJobArgs, and whether a file is at script_path
JobInputs ==
    [script_path : ScriptPaths, output_file : {None, "out.log"},
     working_directory : {None, "work"}, script_exists : BOOLEAN]

\* The output file: missing, or holding entries
NoFile == [exists |-> FALSE, entries |-> <<>>]
OldLog == [exists |-> TRUE, entries |-> <<[kind |-> "old"]>>]

\* A write of the child: the stream, and whether the line can be decoded
Writes == [stream : {"stdout", "stderr"}, ok : BOOLEAN]
RECURSIVE ScriptsUpTo(_)
ScriptsUpTo(n) ==
    IF n = 0 THEN {<<>>}
    ELSE LET shorter == ScriptsUpTo(n - 1)
         IN  shorter \cup {Append(s, w) : s \in {t \in shorter : Len(t) = n - 1}, w \in Writes}
Scripts == ScriptsUpTo(MaxEmit)

\* ExitStatus: an exit code, or the end by a signal (code() is None)
ExitStatuses ==
    {[signaled |-> FALSE, code |-> 0], [signaled |-> FALSE, code |-> 1],
     [signaled |-> TRUE, code |-> 0]}

NoChild == [state |-> "none", script |-> <<>>, pc |-> 1, status |-> [signaled |-> FALSE, code |-> 0],
            program |-> "", args |-> <<>>, current_dir |-> ""]
EmptyPipe == [buf |-> <<>>, closed |-> FALSE]
NoResult == [kind |-> "none", exit_code |-> 0, preview |-> <<>>, exit_status |-> [signaled |-> FALSE, code |-> 0]]

JobIdle ==
    /\ job = [script_path |-> ScriptPath("", "run", "sh"), output_file |-> None,
              working_directory |-> None, script_exists |-> FALSE]
    /\ jpc = "idle"
    /\ log_file = NoFile
    /\ child = NoChild
    /\ stdout_pipe = EmptyPipe
    /\ stderr_pipe = EmptyPipe
    /\ output_lines = <<>>
    /\ error_lines = <<>>
    /\ jresult = NoResult

---------------------------------------------------------------------------
(* Letters and their case *)

UpperCase == <<"A", "B", "C", "D", "E", "F", "G", "H", "I", "J", "K", "L", "M",
              "N", "O", "P", "Q", "R", "S", "T", "U", "V", "W", "X", "Y", "Z">>
LowerCase == <<"a", "b", "c", "d", "e", "f", "g", "h", "i", "j", "k", "l", "m",
              "n", "o", "p", "q", "r", "s", "t", "u", "v", "w", "x", "y", "z">>

\* str::to_lowercase and str::to_uppercase, on the letters above
ToLowercase(s) ==
    [i \in 1..Len(s) |->
        IF \E k \in DOMAIN UpperCase : UpperCase[k] = s[i]
        THEN LowerCase[CHOOSE k \in DOMAIN UpperCase : UpperCase[k] = s[i]]
        ELSE s[i]]
ToUppercase(s) ==
    [i \in 1..Len(s) |->
        IF \E k \in DOMAIN LowerCase : LowerCase[k] = s[i]
        THEN UpperCase[CHOOSE k \in DOMAIN LowerCase : LowerCase[k] = s[i]]
        ELSE s[i]]

---------------------------------------------------------------------------
(* analyze_codebase: what it works on *)

MaxSize == 2
MaxDepth == 3

\* The lists of CodebaseAnalyzer::call, each string a sequence of characters
skip_dirs ==
    {<<".", "g", "i", "t">>, <<"n", "o", "d", "e", "_", "m", "o", "d", "u", "l", "e", "s">>,
     <<"t", "a", "r", "g", "e", "t">>, <<"d", "i", "s", "t">>, <<"b", "u", "i", "l", "d">>,
     <<"o", "u", "t">>, <<".", "i", "d", "e", "a">>, <<".", "v", "s", "c", "o", "d", "e">>,
     <<"_", "_", "p", "y", "c", "a", "c", "h", "e", "_", "_">>,
     <<".", "p", "y", "t", "e", "s", "t", "_", "c", "a", "c", "h", "e">>, <<"v", "e", "n", "v">>,
     <<"e", "n", "v">>, <<".", "e", "n", "v">>, <<"v", "e", "n", "d", "o", "r">>,
     <<"b", "o", "w", "e", "r", "_", "c", "o", "m", "p", "o", "n", "e", "n", "t", "s">>,
     <<".", "n", "e", "x", "t">>, <<".", "n", "u", "x", "t">>,
     <<"c", "o", "v", "e", "r", "a", "g", "e">>,
     <<"o", "u", "t", "-", "s", "h", "a", "k", "e", "s", "p", "e", "a", "r", "e", "-", "c", "h", "a", "r">>}
config_files ==
    <<<<"C", "a", "r", "g", "o", ".", "t", "o", "m", "l">>,
     <<"p", "a", "c", "k", "a", "g", "e", ".", "j", "s", "o", "n">>,
     <<"r", "e", "q", "u", "i", "r", "e", "m", "e", "n", "t", "s", ".", "t", "x", "t">>,
     <<"s", "e", "t", "u", "p", ".", "p", "y">>, <<"p", "o", "m", ".", "x", "m", "l">>,
     <<"b", "u", "i", "l", "d", ".", "g", "r", "a", "d", "l", "e">>,
     <<"C", "M", "a", "k", "e", "L", "i", "s", "t", "s", ".", "t", "x", "t">>,
     <<"M", "a", "k", "e", "f", "i", "l", "e">>,
     <<"d", "o", "c", "k", "e", "r", "-", "c", "o", "m", "p", "o", "s", "e", ".", "y", "m", "l">>,
     <<"D", "o", "c", "k", "e", "r", "f", "i", "l", "e">>,
     <<".", "g", "i", "t", "i", "g", "n", "o", "r", "e">>,
     <<"R", "E", "A", "D", "M", "E", ".", "m", "d">>>>
code_extensions ==
    {<<"r", "s">>, <<"p", "y">>, <<"j", "s">>, <<"t", "s">>, <<"j", "s", "x">>, <<"t", "s", "x">>,
     <<"j", "a", "v", "a">>, <<"c", "p", "p">>, <<"c">>, <<"h">>, <<"h", "p", "p">>, <<"g", "o">>,
     <<"r", "b">>, <<"p", "h", "p">>, <<"c", "s">>, <<"s", "w", "i", "f", "t">>, <<"k", "t">>,
     <<"s", "c", "a", "l", "a">>, <<"r">>, <<"m">>, <<"m", "m">>, <<"s", "q", "l">>, <<"s", "h">>,
     <<"b", "a", "s", "h">>, <<"y", "a", "m", "l">>, <<"y", "m", "l">>, <<"j", "s", "o", "n">>,
     <<"x", "m", "l">>, <<"t", "o", "m", "l">>, <<"i", "n", "i">>, <<"m", "d">>, <<"t", "x", "t">>,
     <<"d", "o", "c", "k", "e", "r", "f", "i", "l", "e">>,
     <<"m", "a", "k", "e", "f", "i", "l", "e">>, <<"c", "m", "a", "k", "e">>}
\* The file names that make a code file whatever the extension
code_file_names ==
    {<<"d", "o", "c", "k", "e", "r", "f", "i", "l", "e">>,
     <<"m", "a", "k", "e", "f", "i", "l", "e">>,
     <<"c", "m", "a", "k", "e", "l", "i", "s", "t", "s", ".", "t", "x", "t">>}

\* The root paths a call names: "scout" holds the deny-listed "out"
Proj == <<"p", "r", "o", "j">>
Scout == <<"s", "c", "o", "u", "t">>

\* The entries there can be under the root, each the sequence of the names
\* from the root down; Root is the root itself
Root == <<>>
CargoToml == <<<<"C", "a", "r", "g", "o", ".", "t", "o", "m", "l">>>>
GitIgnore == <<<<".", "g", "i", "t", "i", "g", "n", "o", "r", "e">>>>
Src == <<<<"s", "r", "c">>>>
MainRs == <<<<"s", "r", "c">>, <<"m", "a", "i", "n", ".", "r", "s">>>>
LogoPng == <<<<"s", "r", "c">>, <<"l", "o", "g", "o", ".", "p", "n", "g">>>>
SrcA == <<<<"s", "r", "c">>, <<"a">>>>
DeepMakefile == <<<<"s", "r", "c">>, <<"a">>, <<"M", "a", "k", "e", "f", "i", "l", "e">>>>
Layout == <<<<"l", "a", "y", "o", "u", "t">>>>
PagePy == <<<<"l", "a", "y", "o", "u", "t">>, <<"p", "a", "g", "e", ".", "p", "y">>>>
Universe ==
    {Root, CargoToml, GitIgnore, Src, MainRs, LogoPng, SrcA, DeepMakefile, Layout, PagePy}

\* What is at an entry: nothing, a directory that can be listed or not, a
\* file that can be read or not and the length of its content in bytes
NoEntry == [kind |-> "none", readable |-> FALSE, len |-> 0]
DirEntry(listable) == [kind |-> "dir", readable |-> listable, len |-> 0]
FileEntry(readable, len) == [kind |-> "file", readable |-> readable, len |-> len]
FileStates == {NoEntry, FileEntry(FALSE, 1)} \cup {FileEntry(TRUE, n) : n \in 1..MaxSize}
SmallFile == {NoEntry, FileEntry(TRUE, 1)}

\* A disk with nothing under the root
BareDisk(root) == [p \in Universe |-> IF p = Root THEN root ELSE NoEntry]

\* The disks under a root path: for "proj" no root, a file as root, or a
\* directory with any files in it; for "scout" a directory with a manifest
\* and a source file
Disks(path) ==
    IF path = Proj
    THEN {BareDisk(NoEntry), BareDisk(FileEntry(TRUE, 1))} \cup
         {[BareDisk(DirEntry(TRUE)) EXCEPT
              ![CargoToml] = cargo, ![GitIgnore] = git, ![Src] = DirEntry(listable),
              ![MainRs] = main, ![LogoPng] = FileEntry(TRUE, 1), ![SrcA] = DirEntry(TRUE),
              ![DeepMakefile] = FileEntry(TRUE, 1), ![Layout] = DirEntry(TRUE),
              ![PagePy] = page] :
            cargo \in FileStates, git \in SmallFile, listable \in BOOLEAN,
            main \in FileStates, page \in SmallFile}
    ELSE {[BareDisk(DirEntry(TRUE)) EXCEPT
              ![CargoToml] = cargo, ![Src] = DirEntry(TRUE), ![MainRs] = FileEntry(TRUE, 1)] :
            cargo \in FileStates}

\* AnalyzeCodebaseArgs
AnalyzeInputs ==
    [path : {Proj, Scout}, max_file_size : 1..(MaxSize + 1), max_depth : 0..MaxDepth]

\* The bundle: the entries of the structure tree, the sections of the
\* manifest files in the order of config_files, and the sections of the
\* code files, which come in the order the directories are listed in
NoBundle == [structure |-> {}, config |-> <<>>, code |-> {}]
NoAnalysis == [kind |-> "none", bundle |-> NoBundle]

AnalyzeIdle ==
    /\ disk = BareDisk(NoEntry)
    /\ analyze = [path |-> Proj, max_file_size |-> 1, max_depth |-> 0]
    /\ apc = "idle"
    /\ aresult = NoAnalysis

---------------------------------------------------------------------------
(* The context store: what it works on *)

\* Keys, as sequences of characters: two of them differ in case only
Keys == {<<"k">>, <<"K">>, <<"j">>}
Contents == {"v1", "v2"}
Callers == {"t1", "t2"}

\* ContextManager::new(): no entry
EmptyContext == [k \in {} |-> ""]

NoOutcome == [kind |-> "none", count |-> 0, sections |-> <<>>]
IdleCaller ==
    [pc |-> "idle", op |-> "none", key |-> <<>>, content |-> "", todo |-> {},
     out |-> <<>>, result |-> NoOutcome]

ContextIdle ==
    /\ context = EmptyContext
    /\ mutex = None
    /\ callers = [t \in Callers |-> IdleCaller]

---------------------------------------------------------------------------
(* read_file, write_file, create_directory: what they work on *)

\* The paths the calls name: "d", "d/e" and "d/e/f", as their components.
\* Cwd is the directory the relative paths start from: Path::parent of "d"
\* is the empty path, which create_dir_all takes as present.
Cwd == <<>>
PathD == <<"d">>
PathE == <<"d", "e">>
PathF == <<"d", "e", "f">>
Nodes == {Cwd, PathD, PathE, PathF}
CallPaths == {PathD, PathE, PathF}

Parent(p) == SubSeq(p, 1, Len(p) - 1)

\* The characters of a content: "a" takes one byte in UTF-8, EACUTE two
EACUTE == "EACUTE"
Utf8Width(c) == IF c = EACUTE THEN 2 ELSE 1
WriteContents == StringsUpTo({"a", EACUTE}, MaxWriteLen)

\* str::len: the number of bytes of the UTF-8 encoding
RECURSIVE ByteLen(_)
ByteLen(s) == IF s = <<>> THEN 0 ELSE Utf8Width(Head(s)) + ByteLen(Tail(s))

\* What is at a path.  access: for a file, the OS lets the process read and
\* write it; for a directory, the OS lets the process create entries in it
\* (a directory without it can still be searched).
Nothing == [kind |-> "none", access |-> FALSE, content |-> <<>>]
Directory(access) == [kind |-> "dir", access |-> access, content |-> <<>>]
RegularFile(access, content) == [kind |-> "file", access |-> access, content |-> content]

Tree(d, e, f) ==
    [p \in Nodes |-> IF p = Cwd THEN Directory(TRUE)
                     ELSE IF p = PathD THEN d
                     ELSE IF p = PathE THEN e
                     ELSE f]

\* Something is at a path only if its parent is a directory
Trees ==
    LET above == {Nothing, RegularFile(TRUE, <<>>), Directory(TRUE), Directory(FALSE)}
        leaf == {Nothing, Directory(TRUE), RegularFile(FALSE, <<"a">>)}
                    \cup {RegularFile(TRUE, c) : c \in WriteContents}
    IN  {t \in {Tree(d, e, f) : d \in above, e \in above, f \in leaf} :
            \A p \in CallPaths : t[p].kind # "none" => t[Parent(p)].kind = "dir"}

NoFileCall ==
    [op |-> "none", path |-> Cwd, content |-> <<>>, before |-> Tree(Nothing, Nothing, Nothing),
     kind |-> "none", os_error |-> "none", value |-> <<>>, size |-> 0]

FilesIdle ==
    /\ nodes = Tree(Nothing, Nothing, Nothing)
    /\ flast = NoFileCall

---------------------------------------------------------------------------
(* list_files: what it works on *)

\* The entries the listed directory may hold.  utf8: the name is valid
\* UTF-8, so OsStr::to_str gives Some; a name of any other bytes gives None.
\* ".git", ".env", "src", "Zed", "a.txt", and "caf" with the byte E9 after it
DirEntries ==
    {[name |-> <<".", "g", "i", "t">>, utf8 |-> TRUE, is_dir |-> TRUE],
     [name |-> <<".", "e", "n", "v">>, utf8 |-> TRUE, is_dir |-> FALSE],
     [name |-> <<"s", "r", "c">>, utf8 |-> TRUE, is_dir |-> TRUE],
     [name |-> <<"Z", "e", "d">>, utf8 |-> TRUE, is_dir |-> FALSE],
     [name |-> <<"a", ".", "t", "x", "t">>, utf8 |-> TRUE, is_dir |-> FALSE],
     [name |-> <<"c", "a", "f", "xE9">>, utf8 |-> FALSE, is_dir |-> FALSE]}

\* The path listed: missing, a file, or a directory with some entries
\* readable: the OS lets the process read the directory
Listed ==
    {[kind |-> "none", readable |-> FALSE, children |-> {}],
     [kind |-> "file", readable |-> TRUE, children |-> {}]}
        \cup {[kind |-> "dir", readable |-> r, children |-> c] :
                  r \in BOOLEAN, c \in SUBSET DirEntries}

NoListing == [kind |-> "none", os_error |-> "none", entries |-> <<>>]

ListIdle ==
    /\ ldir = [kind |-> "none", readable |-> FALSE, children |-> {}]
    /\ largs = [include_hidden |-> FALSE]
    /\ lresult = NoListing

---------------------------------------------------------------------------
(* The file system *)

\* "f" is the file the calls name, "g" another file beside it
Paths == {"f", "g"}
Targets == {"f"}
Absent == [content |-> <<>>, perm |-> "absent"]
Perms == {"rw", "ro", "none"}

File(c, p) == [content |-> c, perm |-> p]

\* Path::exists
Exists(path) == fs[path].perm # "absent"
\* fs::read_to_string succeeds
Readable(path) == fs[path].perm \in {"rw", "ro"}
\* fs::write succeeds
Writable(path) == fs[path].perm = "rw"

FileContents == StringsUpTo(FileChars, MaxFileLen) \cup {ExampleFile}
NewContents == StringsUpTo(ArgChars, MaxArgLen) \cup {ExampleNew}
SearchTexts == StringsUpTo(SearchChars, MaxSearchLen)
ReplaceTexts == StringsUpTo(ArgChars, MaxReplaceLen)
LineNumbers == 0..MaxLine

NoCall ==
    [op |-> "none", path |-> "f", a |-> 0, b |-> 0, text |-> <<>>, repl |-> <<>>,
     all |-> FALSE, before |-> Absent, kind |-> "none", n |-> 0, m |-> 0]

Call(op, path, a, b, text, repl, all) ==
    [op |-> op, path |-> path, a |-> a, b |-> b, text |-> text, repl |-> repl,
     all |-> all, before |-> fs[path], kind |-> "none", n |-> 0, m |-> 0]

\* The call returns `kind` (Ok or the FileToolError variant) with the numbers
\* of its message, having written nothing
Return(call, kind, n, m) ==
    /\ tpc' = "returned"
    /\ last' = [call EXCEPT !.kind = kind, !.n = n, !.m = m]
    /\ UNCHANGED fs
    /\ UNCHANGED <<jobVars, analyzeVars, contextVars, filesVars, listVars>>

\* fs::write(path, new_content) and the rest of the call: an Io error when the
\* write is refused, else the file holds new_content and the call returns Ok
WriteAndReturn(call, new_content, n, m) ==
    IF ~Writable(call.path)
    THEN Return(call, "Io", 0, 0)
    ELSE /\ fs' = [fs EXCEPT ![call.path].content = new_content]
         /\ tpc' = "returned"
         /\ last' = [call EXCEPT !.kind = "Ok", !.n = n, !.m = m]
         /\ UNCHANGED <<jobVars, analyzeVars, contextVars, filesVars, listVars>>

Bystander == File(<<"a", LF>>, "rw")

InitText ==
    /\ \E c \in FileContents, p \in Perms :
          fs \in {[f |-> File(c, p), g |-> Bystander], [f |-> Absent, g |-> Bystander]}
    /\ tpc = "idle"
    /\ last = NoCall
    /\ JobIdle
    /\ AnalyzeIdle
    /\ ContextIdle
    /\ FilesIdle
    /\ ListIdle

---------------------------------------------------------------------------
(* edit_file: FileEditor::call *)

EditedContentAll(content, search, replace, replace_all) ==
    Replace(content, search, replace)

\* The new content of a successful edit_file
EditedContent(content, search, replace, replace_all) ==
    IF replace_all
    THEN Replace(content, search, replace)
    ELSE ReplaceFirstAt(content, Find(content, search), search, replace)

\* The count of the message of a successful edit_file
Replacements(content, search, replace_all) ==
    IF replace_all THEN MatchCount(content, search) ELSE 1

SearchFoundFirstOnly(content, search, replace_all) ==
    IF replace_all THEN TRUE ELSE Find(content, search) # -1

\* The search text occurs: content.contains(search) when replace_all, else
\* content.find(search) is Some
SearchFound(content, search, replace_all) ==
    IF replace_all THEN Contains(content, search) ELSE Find(content, search) # -1

EditFile(path, search, replace, replace_all) ==
    LET call == Call("edit_file", path, 0, 0, search, replace, replace_all)
        content == fs[path].content
    IN  /\ tpc = "idle"
        /\ IF ~Exists(path) THEN Return(call, "FileNotFound", 0, 0)
           ELSE IF ~Readable(path) THEN Return(call, "Io", 0, 0)
           ELSE IF ~SearchFound(content, search, replace_all)
                THEN Return(call, "StringNotFound", 0, 0)
           ELSE WriteAndReturn(call,
                               EditedContent(content, search, replace, replace_all),
                               Replacements(content, search, replace_all), 0)

---------------------------------------------------------------------------
(* edit_code_lines: CodeEditor::call *)

EditRangeCheckNoOrder(start_line, end_line, len) ==
    IF start_line = 0 \/ end_line = 0 THEN "InvalidPath"
    ELSE IF start_line > len \/ end_line > len THEN "InvalidPath"
    ELSE "Ok"

\* The check of the line numbers: the error it returns, or "Ok"
EditRangeCheck(start_line, end_line, len) ==
    IF start_line = 0 \/ end_line = 0 THEN "InvalidPath"
    ELSE IF start_line > len \/ end_line > len THEN "InvalidPath"
    ELSE IF start_line > end_line THEN "InvalidPath"
    ELSE "Ok"

\* new_lines: the lines before the range, the lines of new_content, the
\* lines after the range
EditedLines(lines, start_line, end_line, new_content) ==
    SubSeq(lines, 1, start_line - 1) \o Lines(new_content)
        \o SubSeq(lines, end_line + 1, Len(lines))

EditCodeLines(path, start_line, end_line, new_content) ==
    LET call == Call("edit_code_lines", path, start_line, end_line, new_content, <<>>, FALSE)
        lines == Lines(fs[path].content)
    IN  /\ tpc = "idle"
        /\ IF ~Exists(path) THEN Return(call, "FileNotFound", 0, 0)
           ELSE IF ~Readable(path) THEN Return(call, "Io", 0, 0)
           ELSE IF EditRangeCheck(start_line, end_line, Len(lines)) # "Ok"
                THEN Return(call, EditRangeCheck(start_line, end_line, Len(lines)), 0, 0)
           ELSE WriteAndReturn(call,
                               Join(EditedLines(lines, start_line, end_line, new_content), <<LF>>),
                               end_line - start_line + 1,
                               Len(Lines(new_content)))

---------------------------------------------------------------------------
(* insert_code: CodeInserter::call *)

\* The loop over lines.iter().enumerate(): every line is pushed, and the
\* lines of content after the line whose 0-based index i equals after_line
InsertLoop(lines, after_line, content) ==
    LET RECURSIVE L(_)
        L(i) == IF i >= Len(lines) THEN <<>>
                ELSE <<lines[i + 1]>>
                     \o (IF i = after_line THEN Lines(content) ELSE <<>>)
                     \o L(i + 1)
    IN  L(0)

\* new_lines: the loop, and then for after_line = 0 the lines of content
\* put before what the loop built
InsertedLines(lines, after_line, content) ==
    LET new_lines == InsertLoop(lines, after_line, content)
    IN  IF after_line = 0 THEN Lines(content) \o new_lines ELSE new_lines

\* insert_code, were the file written before after_line is checked
InsertCodeWritesFirst(path, after_line, content) ==
    LET call == Call("insert_code", path, after_line, 0, content, <<>>, FALSE)
        lines == Lines(fs[path].content)
    IN  /\ tpc = "idle"
        /\ IF ~Exists(path) THEN Return(call, "FileNotFound", 0, 0)
           ELSE IF ~Readable(path) THEN Return(call, "Io", 0, 0)
           ELSE IF after_line > Len(lines) /\ Writable(path)
                THEN /\ fs' = [fs EXCEPT ![path].content = fs[path].content \o content]
                     /\ tpc' = "returned"
                     /\ last' = [call EXCEPT !.kind = "InvalidPath"]
                     /\ UNCHANGED <<jobVars, analyzeVars, contextVars, filesVars, listVars>>
           ELSE IF after_line > Len(lines) THEN Return(call, "InvalidPath", 0, 0)
           ELSE WriteAndReturn(call,
                               Join(InsertedLines(lines, after_line, content), <<LF>>),
                               Len(Lines(content)), 0)

InsertCode(path, after_line, content) ==
    LET call == Call("insert_code", path, after_line, 0, content, <<>>, FALSE)
        lines == Lines(fs[path].content)
    IN  /\ tpc = "idle"
        /\ IF ~Exists(path) THEN Return(call, "FileNotFound", 0, 0)
           ELSE IF ~Readable(path) THEN Return(call, "Io", 0, 0)
           ELSE IF after_line > Len(lines) THEN Return(call, "InvalidPath", 0, 0)
           ELSE WriteAndReturn(call,
                               Join(InsertedLines(lines, after_line, content), <<LF>>),
                               Len(Lines(content)), 0)

---------------------------------------------------------------------------
(* The text mutators, one call from any state of the file system *)

CallEditFile ==
    \E path \in Targets, search \in SearchTexts, replace \in ReplaceTexts, replace_all \in BOOLEAN :
        EditFile(path, search, replace, replace_all)

CallEditCodeLines ==
    \E path \in Targets, start_line \in LineNumbers, end_line \in LineNumbers,
       new_content \in NewContents :
        EditCodeLines(path, start_line, end_line, new_content)

CallInsertCode ==
    \E path \in Targets, after_line \in LineNumbers, content \in NewContents :
        InsertCode(path, after_line, content)

NextText == CallEditFile \/ CallEditCodeLines \/ CallInsertCode

SpecText == InitText /\ [][NextText]_vars

---------------------------------------------------------------------------
(* execute_job: JobExecutor::call, statement by statement, and the child *)

TextIdle ==
    /\ fs = [f |-> Absent, g |-> Bystander]
    /\ tpc = "idle"
    /\ last = NoCall

InitJob ==
    /\ TextIdle
    /\ AnalyzeIdle
    /\ ContextIdle
    /\ FilesIdle
    /\ ListIdle
    /\ job \in JobInputs
    /\ jpc = "start"
    /\ log_file \in {NoFile, OldLog}
    /\ child = NoChild
    /\ stdout_pipe = EmptyPipe
    /\ stderr_pipe = EmptyPipe
    /\ output_lines = <<>>
    /\ error_lines = <<>>
    /\ jresult = NoResult

\* Path::file_name is None for a path that ends in ".."
HasFileName(script_path) == script_path.stem # ".."

\* determine_executor, were .pl scripts run directly
DetermineExecutorNoPerl(script_path) ==
    LET script_name == <<script_path.stem, script_path.ext>>
    IN  CASE script_path.ext = "py" -> [program |-> <<"python">>, args |-> <<script_name>>]
          [] script_path.ext = "sh" -> [program |-> <<"bash">>, args |-> <<script_name>>]
          [] script_path.ext = "js" -> [program |-> <<"node">>, args |-> <<script_name>>]
          [] script_path.ext = "rb" -> [program |-> <<"ruby">>, args |-> <<script_name>>]
          [] OTHER -> [program |-> <<"./", script_name>>, args |-> <<>>]

\* determine_executor: the program and its arguments by the extension of
\* the script, the file name alone standing for the script
DetermineExecutor(script_path) ==
    LET script_name == <<script_path.stem, script_path.ext>>
    IN  CASE script_path.ext = "py" -> [program |-> <<"python">>, args |-> <<script_name>>]
          [] script_path.ext = "sh" -> [program |-> <<"bash">>, args |-> <<script_name>>]
          [] script_path.ext = "js" -> [program |-> <<"node">>, args |-> <<script_name>>]
          [] script_path.ext = "rb" -> [program |-> <<"ruby">>, args |-> <<script_name>>]
          [] script_path.ext = "pl" -> [program |-> <<"perl">>, args |-> <<script_name>>]
          [] OTHER -> [program |-> <<"./", script_name>>, args |-> <<>>]

\* working_dir: the caller's directory, else the parent of the script path
WorkingDir(args) ==
    IF args.working_directory # None THEN args.working_directory
    ELSE args.script_path.parent

\* exit_status.code().unwrap_or(-1)
ExitCode(status) == IF status.signaled THEN -1 ELSE status.code

PreviewLines == 10

\* The preview, were it the first lines
PreviewHead(all_output) ==
    SubSeq(all_output, 1,
           IF Len(all_output) > PreviewLines THEN PreviewLines ELSE Len(all_output))

\* all_output.iter().rev().take(10).rev()
Preview(all_output) ==
    SubSeq(all_output,
           IF Len(all_output) > PreviewLines THEN Len(all_output) - PreviewLines + 1 ELSE 1,
           Len(all_output))

\* all_output, were the lines of stderr put first
AllOutputErrFirst == error_lines \o output_lines

\* all_output: output_lines extended by error_lines
AllOutput == output_lines \o error_lines

Header == [kind |-> "header", script |-> job.script_path]
Footer(status) == [kind |-> "footer", exit_code |-> ExitCode(status)]
LogLine(tagged) == [kind |-> "line", tag |-> tagged.tag, line |-> tagged.line]

\* The call returns the error `kind`
JobFail(kind) ==
    /\ jpc' = "returned"
    /\ jresult' = [jresult EXCEPT !.kind = kind]

\* JobStart, were the log created before the script is looked for
JobStartCreatesLog ==
    /\ jpc = "start"
    /\ log_file' = [exists |-> TRUE, entries |-> <<>>]
    /\ IF ~job.script_exists THEN JobFail("FileNotFound")
       ELSE jpc' = "create" /\ UNCHANGED jresult
    /\ UNCHANGED <<textVars, analyzeVars, contextVars, filesVars, listVars, job, child, stdout_pipe, stderr_pipe,
                   output_lines, error_lines>>

\* if !script_path.exists() { return Err(FileNotFound) }
JobStart ==
    /\ jpc = "start"
    /\ IF ~job.script_exists THEN JobFail("FileNotFound")
       ELSE jpc' = "create" /\ UNCHANGED jresult
    /\ UNCHANGED <<textVars, analyzeVars, contextVars, filesVars, listVars, job, log_file, child, stdout_pipe, stderr_pipe,
                   output_lines, error_lines>>

\* File::create(&output_file): the file is created or truncated, or the
\* call fails
JobCreateLog ==
    /\ jpc = "create"
    /\ \/ /\ log_file' = [exists |-> TRUE, entries |-> <<>>]
          /\ jpc' = "header"
          /\ UNCHANGED jresult
       \/ /\ JobFail("Io")
          /\ UNCHANGED log_file
    /\ UNCHANGED <<textVars, analyzeVars, contextVars, filesVars, listVars, job, child, stdout_pipe, stderr_pipe, output_lines, error_lines>>

\* log_file.write_all(header): written, or the call fails
JobWriteHeader ==
    /\ jpc = "header"
    /\ \/ /\ log_file' = [log_file EXCEPT !.entries = Append(@, Header)]
          /\ jpc' = "executor"
          /\ UNCHANGED jresult
       \/ /\ JobFail("Io")
          /\ UNCHANGED log_file
    /\ UNCHANGED <<textVars, analyzeVars, contextVars, filesVars, listVars, job, child, stdout_pipe, stderr_pipe, output_lines, error_lines>>

\* determine_executor(&args.script_path)? and the working directory
JobDetermineExecutor ==
    /\ jpc = "executor"
    /\ IF ~HasFileName(job.script_path) THEN JobFail("InvalidPath")
       ELSE jpc' = "spawn" /\ UNCHANGED jresult
    /\ UNCHANGED <<textVars, analyzeVars, contextVars, filesVars, listVars, job, log_file, child, stdout_pipe, stderr_pipe,
                   output_lines, error_lines>>

\* JobSpawn, were the log removed when the spawn fails
JobSpawnRemovesLog ==
    /\ jpc = "spawn"
    /\ \/ /\ WorkingDir(job) # ""
          /\ \E script \in Scripts :
                child' = [child EXCEPT !.state = "running", !.script = script,
                              !.program = DetermineExecutor(job.script_path).program,
                              !.args = DetermineExecutor(job.script_path).args,
                              !.current_dir = WorkingDir(job)]
          /\ jpc' = "read_stdout"
          /\ UNCHANGED <<jresult, log_file>>
       \/ /\ JobFail("Io")
          /\ log_file' = NoFile
          /\ UNCHANGED child
    /\ UNCHANGED <<textVars, analyzeVars, contextVars, filesVars, listVars, job, stdout_pipe, stderr_pipe, output_lines, error_lines>>

\* Command::new(program).args(script_args).current_dir(working_dir).spawn():
\* a child starts, whose writes are any script, or the spawn fails; it
\* fails when the working directory is the empty path
JobSpawn ==
    /\ jpc = "spawn"
    /\ \/ /\ WorkingDir(job) # ""
          /\ \E script \in Scripts :
                child' = [child EXCEPT !.state = "running", !.script = script,
                              !.program = DetermineExecutor(job.script_path).program,
                              !.args = DetermineExecutor(job.script_path).args,
                              !.current_dir = WorkingDir(job)]
          /\ jpc' = "read_stdout"
          /\ UNCHANGED jresult
       \/ /\ JobFail("Io")
          /\ UNCHANGED child
    /\ UNCHANGED <<textVars, analyzeVars, contextVars, filesVars, listVars, job, log_file, stdout_pipe, stderr_pipe, output_lines, error_lines>>

\* The child writes its next line: it waits while the pipe is full
ChildWrite ==
    /\ child.state = "running"
    /\ child.pc <= Len(child.script)
    /\ LET w == child.script[child.pc]
           line == [line |-> child.pc, ok |-> w.ok]
       IN  \/ /\ w.stream = "stdout"
              /\ Len(stdout_pipe.buf) < PipeCap
              /\ stdout_pipe' = [stdout_pipe EXCEPT !.buf = Append(@, line)]
              /\ UNCHANGED stderr_pipe
           \/ /\ w.stream = "stderr"
              /\ Len(stderr_pipe.buf) < PipeCap
              /\ stderr_pipe' = [stderr_pipe EXCEPT !.buf = Append(@, line)]
              /\ UNCHANGED stdout_pipe
    /\ child' = [child EXCEPT !.pc = @ + 1]
    /\ UNCHANGED <<textVars, analyzeVars, contextVars, filesVars, listVars, job, jpc, log_file, output_lines, error_lines, jresult>>

\* The child ends, with any exit status: both its pipes are closed
ChildExit ==
    /\ child.state = "running"
    /\ child.pc > Len(child.script)
    /\ \E status \in ExitStatuses :
          child' = [child EXCEPT !.state = "exited", !.status = status]
    /\ stdout_pipe' = [stdout_pipe EXCEPT !.closed = TRUE]
    /\ stderr_pipe' = [stderr_pipe EXCEPT !.closed = TRUE]
    /\ UNCHANGED <<textVars, analyzeVars, contextVars, filesVars, listVars, job, jpc, log_file, output_lines, error_lines, jresult>>

\* for line in reader.lines() over stdout: a line that reads Ok is pushed,
\* tagged, one that does not is passed over; the loop ends at end of stream
JobReadStdout ==
    /\ jpc = "read_stdout"
    /\ \/ /\ stdout_pipe.buf # <<>>
          /\ stdout_pipe' = [stdout_pipe EXCEPT !.buf = Tail(@)]
          /\ output_lines' =
                IF Head(stdout_pipe.buf).ok
                THEN Append(output_lines, [tag |-> "[STDOUT]", line |-> Head(stdout_pipe.buf).line])
                ELSE output_lines
          /\ UNCHANGED jpc
       \/ /\ stdout_pipe.buf = <<>>
          /\ stdout_pipe.closed
          /\ jpc' = "read_stderr"
          /\ UNCHANGED <<stdout_pipe, output_lines>>
    /\ UNCHANGED <<textVars, analyzeVars, contextVars, filesVars, listVars, job, log_file, child, stderr_pipe, error_lines, jresult>>

\* The same loop over stderr, begun when the loop over stdout has ended
JobReadStderr ==
    /\ jpc = "read_stderr"
    /\ \/ /\ stderr_pipe.buf # <<>>
          /\ stderr_pipe' = [stderr_pipe EXCEPT !.buf = Tail(@)]
          /\ error_lines' =
                IF Head(stderr_pipe.buf).ok
                THEN Append(error_lines, [tag |-> "[STDERR]", line |-> Head(stderr_pipe.buf).line])
                ELSE error_lines
          /\ UNCHANGED jpc
       \/ /\ stderr_pipe.buf = <<>>
          /\ stderr_pipe.closed
          /\ jpc' = "wait"
          /\ UNCHANGED <<stderr_pipe, error_lines>>
    /\ UNCHANGED <<textVars, analyzeVars, contextVars, filesVars, listVars, job, log_file, child, stdout_pipe, output_lines, jresult>>

\* child.wait()?: the exit status of the child once it has ended, or an error
JobWait ==
    /\ jpc = "wait"
    /\ child.state = "exited"
    /\ \/ /\ jresult' = [jresult EXCEPT !.exit_status = child.status]
          /\ jpc' = "write_lines"
       \/ JobFail("Io")
    /\ UNCHANGED <<textVars, analyzeVars, contextVars, filesVars, listVars, job, log_file, child, stdout_pipe, stderr_pipe,
                   output_lines, error_lines>>

\* for line in &all_output { log_file.write_all(line)? }: every line is
\* written, or the lines before the one whose write fails
JobWriteLines ==
    /\ jpc = "write_lines"
    /\ \/ /\ log_file' = [log_file EXCEPT
                             !.entries = @ \o [i \in 1..Len(AllOutput) |-> LogLine(AllOutput[i])]]
          /\ jpc' = "footer"
          /\ UNCHANGED jresult
       \/ \E k \in 1..Len(AllOutput) :
             /\ log_file' = [log_file EXCEPT
                                !.entries = @ \o [i \in 1..(k - 1) |-> LogLine(AllOutput[i])]]
             /\ JobFail("Io")
    /\ UNCHANGED <<textVars, analyzeVars, contextVars, filesVars, listVars, job, child, stdout_pipe, stderr_pipe, output_lines, error_lines>>

\* log_file.write_all(footer)?, and the summary returned: the exit code and
\* the preview of the last lines
JobWriteFooter ==
    /\ jpc = "footer"
    /\ \/ /\ log_file' = [log_file EXCEPT !.entries = Append(@, Footer(jresult.exit_status))]
          /\ jresult' = [jresult EXCEPT !.kind = "Ok",
                                        !.exit_code = ExitCode(jresult.exit_status),
                                        !.preview = Preview(AllOutput)]
          /\ jpc' = "returned"
       \/ /\ JobFail("Io")
          /\ UNCHANGED log_file
    /\ UNCHANGED <<textVars, analyzeVars, contextVars, filesVars, listVars, job, child, stdout_pipe, stderr_pipe, output_lines, error_lines>>

NextJob ==
    \/ JobStart \/ JobCreateLog \/ JobWriteHeader \/ JobDetermineExecutor \/ JobSpawn
    \/ ChildWrite \/ ChildExit
    \/ JobReadStdout \/ JobReadStderr \/ JobWait \/ JobWriteLines \/ JobWriteFooter

SpecJob == InitJob /\ [][NextJob]_vars

---------------------------------------------------------------------------
(* execute_job from the end of the child on: a child that has written up to
   MaxCaptured short lines, all of which the pipes hold, and has ended *)

MaxCaptured == 11

\* The writes of such a child: `len` lines, the first k on one stream and
\* the rest on the other, or the two streams in turn
Emission(len, k, order) ==
    [i \in 1..len |->
        [stream |-> IF order = "in turn"
                    THEN (IF i % 2 = 1 THEN "stderr" ELSE "stdout")
                    ELSE IF (i <= k) = (order = "stdout first") THEN "stdout"
                    ELSE "stderr",
         ok |-> TRUE]]
LongScripts ==
    {Emission(len, k, order) :
        len \in 0..MaxCaptured, k \in 0..MaxCaptured,
        order \in {"stdout first", "stderr first", "in turn"}}

\* What a pipe holds of a script when nothing of it has been read
PipeOf(script, stream) ==
    LET numbered == [i \in 1..Len(script) |->
                        [line |-> i, ok |-> script[i].ok, stream |-> script[i].stream]]
        OnStream(w) == w.stream = stream
        mine == SelectSeq(numbered, OnStream)
    IN  [i \in 1..Len(mine) |-> [line |-> mine[i].line, ok |-> mine[i].ok]]

SummaryJob ==
    [script_path |-> ScriptPath("jobs", "train", "py"), output_file |-> None,
     working_directory |-> None, script_exists |-> TRUE]

InitSummary ==
    /\ TextIdle
    /\ AnalyzeIdle
    /\ ContextIdle
    /\ FilesIdle
    /\ ListIdle
    /\ job = SummaryJob
    /\ jpc = "read_stdout"
    /\ log_file = [exists |-> TRUE, entries |-> <<[kind |-> "header", script |-> SummaryJob.script_path]>>]
    /\ \E script \in LongScripts, status \in ExitStatuses :
          /\ child = [state |-> "exited", script |-> script, pc |-> Len(script) + 1,
                      status |-> status,
                      program |-> DetermineExecutor(SummaryJob.script_path).program,
                      args |-> DetermineExecutor(SummaryJob.script_path).args,
                      current_dir |-> WorkingDir(SummaryJob)]
          /\ stdout_pipe = [buf |-> PipeOf(script, "stdout"), closed |-> TRUE]
          /\ stderr_pipe = [buf |-> PipeOf(script, "stderr"), closed |-> TRUE]
    /\ output_lines = <<>>
    /\ error_lines = <<>>
    /\ jresult = NoResult

NextSummary == JobReadStdout \/ JobReadStderr \/ JobWait \/ JobWriteLines \/ JobWriteFooter

SpecSummary == InitSummary /\ [][NextSummary]_vars

---------------------------------------------------------------------------
(* analyze_codebase *)

InitAnalyze ==
    /\ TextIdle
    /\ JobIdle
    /\ ContextIdle
    /\ FilesIdle
    /\ ListIdle
    /\ analyze \in AnalyzeInputs
    /\ disk \in Disks(analyze.path)
    /\ apc = "start"
    /\ aresult = NoAnalysis

\* path.exists() and path.is_dir(): the error of the call, or "Ok"
RootCheckNoDir == IF disk[Root].kind = "none" THEN "FileNotFound" ELSE "Ok"
RootCheck ==
    IF disk[Root].kind = "none" THEN "FileNotFound"
    ELSE IF disk[Root].kind # "dir" THEN "InvalidPath"
    ELSE "Ok"

\* e.path().to_string_lossy(): the root path as the caller gave it and the
\* names down to the entry, with "/" between
PathString(p) == Join(<<analyze.path>> \o p, <<"/">>)

\* The filter, were it to look for a path component that is a deny-listed name
SkippedByName(p) == \E i \in 1..Len(p) : p[i] \in skip_dirs

\* The filter of both walks: some string of skip_dirs occurs in the path string
Skipped(p) == \E dir \in skip_dirs : Contains(PathString(p), dir)

\* The entries a directory lists
Children(p) ==
    {q \in Universe : /\ Len(q) = Len(p) + 1
                      /\ SubSeq(q, 1, Len(p)) = p
                      /\ disk[q].kind # "none"}

\* WalkDir::new(path).max_depth(max_depth).into_iter().filter_entry(..),
\* from entry p on, the Ok entries: an entry the filter rejects is not
\* yielded and not descended into; a directory is listed while its depth is
\* below max_depth, and one that cannot be listed yields an Err in place of
\* its entries, which both loops pass over
RECURSIVE Walk(_, _)
Walk(p, max_depth) ==
    IF Skipped(p) THEN {}
    ELSE {p} \cup
         IF disk[p].kind = "dir" /\ disk[p].readable /\ Len(p) < max_depth
         THEN UNION {Walk(q, max_depth) : q \in Children(p)}
         ELSE {}

\* entry.file_name()
FileName(p) == IF p = Root THEN analyze.path ELSE p[Len(p)]

\* Path::extension().unwrap_or(""): what follows the last dot of the file
\* name, unless the name has no dot or its only dot begins it
Extension(name) ==
    LET dots == {i \in 1..Len(name) : name[i] = "."}
        dot == CHOOSE i \in dots : \A j \in dots : j <= i
    IN  IF dots = {} THEN <<>>
        ELSE IF dot = 1 THEN <<>>
        ELSE SubSeq(name, dot + 1, Len(name))

\* is_code_file
IsCodeFile(p) ==
    \/ ToLowercase(Extension(FileName(p))) \in code_extensions
    \/ ToLowercase(FileName(p)) \in code_file_names

\* fs::read_to_string of an entry: its content, or an error
ReadToString(p) ==
    IF disk[p].kind = "file" /\ disk[p].readable
    THEN [ok |-> TRUE, content |-> [of |-> p, len |-> disk[p].len]]
    ELSE [ok |-> FALSE, content |-> [of |-> p, len |-> 0]]

StructureDepth == 3
FileRenderDepth == 2

\* The structure tree: the directories of the walk to depth 3, and its
\* files to depth 2
Structure ==
    {[entry |-> p, indent |-> Len(p), icon |-> disk[p].kind, file_name |-> FileName(p)] :
        p \in {q \in Walk(Root, StructureDepth) :
                  disk[q].kind = "dir" \/ Len(q) <= FileRenderDepth}}

\* The sections of the manifest files: each name of config_files that
\* exists under the root and reads Ok, in the order of the list
ConfigSections ==
    LET Embedded(f) == /\ <<f>> \in Universe
                       /\ disk[<<f>>].kind # "none"
                       /\ ReadToString(<<f>>).ok
        found == SelectSeq(config_files, Embedded)
    IN  [i \in 1..Len(found) |->
            [label |-> <<found[i]>>, content |-> ReadToString(<<found[i]>>).content]]

\* The code files, were a file that cannot be read to end the walk
CodeFilesStopAtUnreadable ==
    LET walked == {q \in Walk(Root, analyze.max_depth) : disk[q].kind = "file" /\ IsCodeFile(q)}
    IN  IF \E q \in walked : ~ReadToString(q).ok THEN {}
        ELSE {q \in walked : ReadToString(q).content.len < analyze.max_file_size}

\* The code files embedded: the files of the walk to max_depth that are code
\* files, read Ok, and whose content is shorter than max_file_size
CodeFiles ==
    {q \in Walk(Root, analyze.max_depth) :
        /\ disk[q].kind = "file"
        /\ IsCodeFile(q)
        /\ ReadToString(q).ok
        /\ ReadToString(q).content.len < analyze.max_file_size}

\* Their sections, each under the path relative to the root
CodeSections == {[label |-> q, content |-> ReadToString(q).content] : q \in CodeFiles}

\* CodebaseAnalyzer::call
AnalyzeCodebase ==
    /\ apc = "start"
    /\ aresult' =
          IF RootCheck = "Ok"
          THEN [kind |-> "Ok",
                bundle |-> [structure |-> Structure, config |-> ConfigSections,
                            code |-> CodeSections]]
          ELSE [kind |-> RootCheck, bundle |-> NoBundle]
    /\ apc' = "returned"
    /\ UNCHANGED <<textVars, jobVars, contextVars, filesVars, listVars, disk, analyze>>

NextAnalyze == AnalyzeCodebase

SpecAnalyze == InitAnalyze /\ [][NextAnalyze]_vars

---------------------------------------------------------------------------
(* The context store: set_context and get_all_context *)

InitContext ==
    /\ TextIdle
    /\ JobIdle
    /\ AnalyzeIdle
    /\ ContextIdle
    /\ FilesIdle
    /\ ListIdle

\* What the steps of the store leave alone
ContextFrame == UNCHANGED <<textVars, jobVars, analyzeVars, filesVars, listVars>>

\* A caller, on a clone of the store, begins set_context(key, content)
CallSetContext(t) ==
    /\ callers[t].pc \in {"idle", "returned"}
    /\ \E key \in Keys, content \in Contents :
          callers' = [callers EXCEPT ![t] =
                         [IdleCaller EXCEPT !.pc = "lock", !.op = "set",
                                             !.key = key, !.content = content]]
    /\ UNCHANGED <<context, mutex>>
    /\ ContextFrame

\* A caller begins get_all_context()
CallGetAllContext(t) ==
    /\ callers[t].pc \in {"idle", "returned"}
    /\ callers' = [callers EXCEPT ![t] = [IdleCaller EXCEPT !.pc = "lock", !.op = "get"]]
    /\ UNCHANGED <<context, mutex>>
    /\ ContextFrame

\* The lock, were it taken without waiting for its holder
LockNoWait(t) ==
    /\ callers[t].pc = "lock"
    /\ mutex' = t
    /\ callers' = [callers EXCEPT ![t].pc = IF callers[t].op = "set" THEN "insert" ELSE "check"]
    /\ UNCHANGED context
    /\ ContextFrame

\* self.context.lock().unwrap(): the caller waits until no one holds the lock
Lock(t) ==
    /\ callers[t].pc = "lock"
    /\ mutex = None
    /\ mutex' = t
    /\ callers' = [callers EXCEPT ![t].pc = IF callers[t].op = "set" THEN "insert" ELSE "check"]
    /\ UNCHANGED context
    /\ ContextFrame

\* HashMap::insert, were the other entries dropped
InsertAlone(store, key, content) == [k \in {key} |-> content]

\* HashMap::insert(key, content)
Insert(store, key, content) ==
    [k \in DOMAIN store \cup {key} |-> IF k = key THEN content ELSE store[k]]

\* The insertion, were the content of an existing key kept
SetInsertKeepsOld(t) ==
    /\ callers[t].pc = "insert"
    /\ context' = IF callers[t].key \in DOMAIN context THEN context
                  ELSE Insert(context, callers[t].key, callers[t].content)
    /\ callers' = [callers EXCEPT ![t].pc = "format"]
    /\ UNCHANGED mutex
    /\ ContextFrame

\* context.insert(args.key.clone(), args.content.clone())
SetInsert(t) ==
    /\ callers[t].pc = "insert"
    /\ context' = Insert(context, callers[t].key, callers[t].content)
    /\ callers' = [callers EXCEPT ![t].pc = "format"]
    /\ UNCHANGED mutex
    /\ ContextFrame

\* Ok(format!(.., args.key, context.len())), and the lock is let go
SetReturn(t) ==
    /\ callers[t].pc = "format"
    /\ callers' = [callers EXCEPT
                      ![t].pc = "returned",
                      ![t].result = [kind |-> "stored", count |-> Cardinality(DOMAIN context),
                                     sections |-> <<>>]]
    /\ mutex' = None
    /\ UNCHANGED context
    /\ ContextFrame

\* if context.is_empty() { return "No context stored yet." }, else the
\* iteration over the entries begins
GetCheckEmpty(t) ==
    /\ callers[t].pc = "check"
    /\ IF DOMAIN context = {}
       THEN /\ callers' = [callers EXCEPT
                              ![t].pc = "returned",
                              ![t].result = [kind |-> "sentinel", count |-> 0, sections |-> <<>>]]
            /\ mutex' = None
       ELSE /\ callers' = [callers EXCEPT ![t].pc = "iterate", ![t].todo = DOMAIN context]
            /\ UNCHANGED mutex
    /\ UNCHANGED context
    /\ ContextFrame

\* The iteration, were the key put in the header as it is
GetIterateKeyAsIs(t) ==
    /\ callers[t].pc = "iterate"
    /\ \E key \in callers[t].todo :
          callers' = [callers EXCEPT
                         ![t].todo = @ \ {key},
                         ![t].out = Append(@, [header |-> key, content |-> context[key]])]
    /\ UNCHANGED <<context, mutex>>
    /\ ContextFrame

\* for (key, value) in context.iter(): the next entry, in the order of the
\* HashMap, which is any order; its section is the upper-cased key and the value
GetIterate(t) ==
    /\ callers[t].pc = "iterate"
    /\ \E key \in callers[t].todo :
          callers' = [callers EXCEPT
                         ![t].todo = @ \ {key},
                         ![t].out = Append(@, [header |-> ToUppercase(key),
                                               content |-> context[key]])]
    /\ UNCHANGED <<context, mutex>>
    /\ ContextFrame

\* The iteration has ended: the rendering is returned, the lock is let go
GetReturn(t) ==
    /\ callers[t].pc = "iterate"
    /\ callers[t].todo = {}
    /\ callers' = [callers EXCEPT
                      ![t].pc = "returned",
                      ![t].out = <<>>,
                      ![t].result = [kind |-> "rendered", count |-> 0,
                                     sections |-> callers[t].out]]
    /\ mutex' = None
    /\ UNCHANGED context
    /\ ContextFrame

NextContext ==
    \E t \in Callers :
        \/ CallSetContext(t) \/ CallGetAllContext(t) \/ Lock(t)
        \/ SetInsert(t) \/ SetReturn(t)
        \/ GetCheckEmpty(t) \/ GetIterate(t) \/ GetReturn(t)

SpecContext == InitContext /\ [][NextContext]_vars

---------------------------------------------------------------------------
(* read_file, write_file, create_directory *)

InitFiles ==
    /\ TextIdle
    /\ JobIdle
    /\ AnalyzeIdle
    /\ ContextIdle
    /\ ListIdle
    /\ nodes \in Trees
    /\ flast = NoFileCall

FilesFrame == UNCHANGED <<textVars, jobVars, analyzeVars, contextVars, listVars>>

\* fs::create_dir_all(p): the empty path and a directory are taken as made;
\* a missing parent is made first; mkdir in a directory the OS does not let
\* the process write fails with EACCES
RECURSIVE CreateDirAll(_, _)
CreateDirAll(t, p) ==
    IF p = Cwd \/ t[p].kind = "dir" THEN [os_error |-> "none", tree |-> t]
    ELSE IF t[p].kind = "file" THEN [os_error |-> "EEXIST", tree |-> t]
    ELSE LET up == IF t[Parent(p)].kind = "none" THEN CreateDirAll(t, Parent(p))
                   ELSE [os_error |-> "none", tree |-> t]
         IN  IF up.os_error # "none" THEN up
             ELSE IF up.tree[Parent(p)].kind = "file"
                  THEN [os_error |-> "ENOTDIR", tree |-> up.tree]
             ELSE IF ~up.tree[Parent(p)].access
                  THEN [os_error |-> "EACCES", tree |-> up.tree]
             ELSE [os_error |-> "none", tree |-> [up.tree EXCEPT ![p] = Directory(TRUE)]]

\* The mapping of a failed call at lines 80-84, 146-150 and 484-488
MapError(os_error) == IF os_error = "EACCES" THEN "PermissionDenied" ELSE "Io"

\* fs::write(path, content): creates the file or truncates it
FsWrite(t, path) ==
    IF t[path].kind = "dir" THEN "EISDIR"
    ELSE IF t[path].kind = "file" THEN (IF t[path].access THEN "none" ELSE "EACCES")
    ELSE IF t[Parent(path)].access THEN "none" ELSE "EACCES"

\* A write_file that writes after what is in the file: an alternative
\* to WriteFile
WriteFileAppends(t, path, content) ==
    LET made == CreateDirAll(t, Parent(path))
        os_error == FsWrite(made.tree, path)
    IN  IF made.os_error # "none"
        THEN [kind |-> "Io", os_error |-> made.os_error, size |-> 0, tree |-> made.tree]
        ELSE IF os_error # "none"
        THEN [kind |-> MapError(os_error), os_error |-> os_error, size |-> 0,
              tree |-> made.tree]
        ELSE [kind |-> "Ok", os_error |-> "none", size |-> ByteLen(content),
              tree |-> [made.tree EXCEPT
                           ![path] = RegularFile(TRUE, made.tree[path].content \o content)]]

\* FileWriter::call: the parent directories, then the file; the `?` on
\* create_dir_all turns every failure of it into Io
WriteFile(t, path, content) ==
    LET made == CreateDirAll(t, Parent(path))
        os_error == FsWrite(made.tree, path)
    IN  IF made.os_error # "none"
        THEN [kind |-> "Io", os_error |-> made.os_error, size |-> 0, tree |-> made.tree]
        ELSE IF os_error # "none"
        THEN [kind |-> MapError(os_error), os_error |-> os_error, size |-> 0,
              tree |-> made.tree]
        ELSE [kind |-> "Ok", os_error |-> "none", size |-> ByteLen(content),
              tree |-> [made.tree EXCEPT ![path] = RegularFile(TRUE, content)]]

\* FileReader::call
ReadFile(t, path) ==
    IF t[path].kind = "none"
    THEN [kind |-> "FileNotFound", os_error |-> "none", value |-> <<>>]
    ELSE IF t[path].kind = "dir"
    THEN [kind |-> "Io", os_error |-> "EISDIR", value |-> <<>>]
    ELSE IF ~t[path].access
    THEN [kind |-> MapError("EACCES"), os_error |-> "EACCES", value |-> <<>>]
    ELSE [kind |-> "Ok", os_error |-> "none", value |-> t[path].content]

\* DirectoryCreator::call
CreateDirectory(t, path) ==
    LET made == CreateDirAll(t, path)
    IN  [kind |-> IF made.os_error = "none" THEN "Ok" ELSE MapError(made.os_error),
         os_error |-> made.os_error, tree |-> made.tree]

CallWriteFile ==
    /\ \E path \in CallPaths, content \in WriteContents :
          LET r == WriteFile(nodes, path, content)
          IN  /\ nodes' = r.tree
              /\ flast' = [op |-> "write_file", path |-> path, content |-> content,
                           before |-> nodes,
                           kind |-> r.kind, os_error |-> r.os_error, value |-> <<>>,
                           size |-> r.size]
    /\ FilesFrame

CallReadFile ==
    /\ \E path \in CallPaths :
          LET r == ReadFile(nodes, path)
          IN  flast' = [op |-> "read_file", path |-> path, content |-> <<>>,
                        before |-> nodes,
                        kind |-> r.kind, os_error |-> r.os_error, value |-> r.value,
                        size |-> 0]
    /\ UNCHANGED nodes
    /\ FilesFrame

CallCreateDirectory ==
    /\ \E path \in CallPaths :
          LET r == CreateDirectory(nodes, path)
          IN  /\ nodes' = r.tree
              /\ flast' = [op |-> "create_directory", path |-> path, content |-> <<>>,
                           before |-> nodes,
                           kind |-> r.kind, os_error |-> r.os_error, value |-> <<>>,
                           size |-> 0]
    /\ FilesFrame

NextFiles == CallWriteFile \/ CallReadFile \/ CallCreateDirectory

SpecFiles == InitFiles /\ [][NextFiles]_vars

---------------------------------------------------------------------------
(* list_files: FileLister::call *)

InitList ==
    /\ TextIdle
    /\ JobIdle
    /\ AnalyzeIdle
    /\ ContextIdle
    /\ FilesIdle
    /\ ldir \in Listed
    /\ largs \in [include_hidden : BOOLEAN]
    /\ lresult = NoListing

\* The place of a character of the entries in the order of their bytes
Code(c) ==
    LET ascii == <<" ", ".", "D", "E", "F", "I", "L", "R", "Z", "[", "]", "a", "c",
                   "d", "e", "f", "g", "i", "n", "r", "s", "t", "x">>
    IN  CHOOSE i \in 1..Len(ascii) : ascii[i] = c

\* The order of String: byte by byte, a prefix before what it begins
RECURSIVE Less(_, _)
Less(a, b) ==
    IF a = <<>> THEN b # <<>>
    ELSE IF b = <<>> THEN FALSE
    ELSE IF Head(a) = Head(b) THEN Less(Tail(a), Tail(b))
    ELSE Code(Head(a)) < Code(Head(b))

\* entries.sort()
RECURSIVE Sort(_)
Sort(S) ==
    IF S = {} THEN <<>>
    ELSE LET least == CHOOSE x \in S : \A y \in S \ {x} : Less(x, y)
         IN  <<least>> \o Sort(S \ {least})

\* format!("{} {}", prefix, file_name) with the prefix "[DIR] " or "[FILE]"
EntryLine(e) ==
    (IF e.is_dir THEN <<"[", "D", "I", "R", "]", " ">>
                 ELSE <<"[", "F", "I", "L", "E", "]">>) \o <<" ">> \o e.name

\* The entries pushed: a name that to_str does not give is passed over,
\* and so is a name that begins with "." unless include_hidden is set
Pushed(children, include_hidden) ==
    {e \in children : e.utf8 /\ (include_hidden \/ Head(e.name) # ".")}

ListFiles ==
    /\ lresult = NoListing
    /\ lresult' =
          IF ldir.kind = "none"
          THEN [kind |-> "FileNotFound", os_error |-> "none", entries |-> <<>>]
          ELSE IF ldir.kind # "dir"
          THEN [kind |-> "InvalidPath", os_error |-> "none", entries |-> <<>>]
          ELSE IF ~ldir.readable
          THEN [kind |-> "Io", os_error |-> "EACCES", entries |-> <<>>]
          ELSE [kind |-> "Ok", os_error |-> "none",
                entries |-> Sort({EntryLine(e) : e \in Pushed(ldir.children,
                                                             largs.include_hidden)})]
    /\ UNCHANGED <<ldir, largs>>
    /\ UNCHANGED <<textVars, jobVars, analyzeVars, contextVars, filesVars>>

NextList == ListFiles

SpecList == InitList /\ [][NextList]_vars

---------------------------------------------------------------------------
(* What the claims about the text mutators speak of *)

\* The call made was `op`, and the file it names existed and could be read
Read(op) ==
    /\ tpc = "returned"
    /\ last.op = op
    /\ last.before.perm \in {"rw", "ro"}

\* The call made was `op` and it returned Ok
Succeeded(op) == Read(op) /\ last.kind = "Ok"

\* The content the call read, and the content the file holds after it
Before == last.before.content
After == fs[last.path].content

\* The number of lines of a content: one per line feed, and one more for
\* what follows the last line feed, if anything does
LineCount(c) ==
    Cardinality({i \in 1..Len(c) : c[i] = LF})
        + (IF c # <<>> /\ c[Len(c)] # LF THEN 1 ELSE 0)

\* The lines the result of edit_code_lines(start, end, new) is to have: line
\* j of the result, for the lines `old` of the file and `mid` of new_content
ExpectedEditLine(old, mid, start, end, j) ==
    IF j <= start - 1 THEN old[j]
    ELSE IF j <= start - 1 + Len(mid) THEN mid[j - (start - 1)]
    ELSE old[end + (j - (start - 1 + Len(mid)))]

ExpectedEdit(old, mid, start, end) ==
    [j \in 1..((start - 1) + Len(mid) + (Len(old) - end)) |->
        ExpectedEditLine(old, mid, start, end, j)]

\* The lines insert_code(after, content) is to give: the first `after` lines
\* of the file, the lines `mid` of content, the other lines of the file
ExpectedInsert(old, mid, after) ==
    [j \in 1..(Len(old) + Len(mid)) |->
        IF j <= after THEN old[j]
        ELSE IF j <= after + Len(mid) THEN mid[j - after]
        ELSE old[j - Len(mid)]]

\* The offset in the bytes of line j of `ls` when the lines are laid out one
\* after the other with one separating byte between two lines
RECURSIVE OffsetOfLine(_, _)
OffsetOfLine(ls, j) ==
    IF j = 1 THEN 0 ELSE OffsetOfLine(ls, j - 1) + Len(ls[j - 1]) + 1

\* bytes are the lines ls separated by single line feeds, with no line feed
\* after the last line
LaidOut(bytes, ls) ==
    IF ls = <<>> THEN bytes = <<>>
    ELSE /\ Len(bytes) = OffsetOfLine(ls, Len(ls)) + Len(ls[Len(ls)])
         /\ \A j \in 1..Len(ls) :
               /\ Slice(bytes, OffsetOfLine(ls, j), OffsetOfLine(ls, j) + Len(ls[j])) = ls[j]
               /\ j < Len(ls) => bytes[OffsetOfLine(ls, j) + Len(ls[j]) + 1] = LF

\* The offsets at which the search text occurs in a content
Occurrences(c, search) ==
    {i \in 0..Len(c) : i + Len(search) <= Len(c)
                       /\ \A k \in 1..Len(search) : c[i + k] = search[k]}

SetMin(S) == CHOOSE x \in S : \A y \in S : x <= y

\* Sets of occurrences no two of which overlap, and the most there can be
NonOverlapping(S, len) == \A i, j \in S : i < j => i + len <= j
OccurrenceCount(c, search) ==
    LET sizes == {Cardinality(S) : S \in {T \in SUBSET Occurrences(c, search) :
                                              NonOverlapping(T, Len(search))}}
    IN  CHOOSE n \in sizes : \A m \in sizes : m <= n

\* The occurrences of a non-empty search text taken from left to right, each
\* the first one that starts at or after the end of the one before
LeftToRight(c, search) ==
    LET occ == Occurrences(c, search)
        n == OccurrenceCount(c, search)
    IN  CHOOSE f \in [1..n -> occ] :
            \A k \in 1..n :
                f[k] = SetMin({o \in occ : o >= (IF k = 1 THEN 0 ELSE f[k - 1] + Len(search))})

---------------------------------------------------------------------------
(* C1 *)

\* C1: after a successful edit_code_lines(start, end, new_content) with
\* 1 <= start <= end <= lineCount, reading the file again and splitting it
\* into lines gives the old lines before start, the lines of new_content, and
\* the old lines after end.
C1_RereadYieldsEditedLines ==
    (Succeeded("edit_code_lines") /\ 1 <= last.a /\ last.a <= last.b
        /\ last.b <= Len(Lines(Before)))
    => Lines(After) = ExpectedEdit(Lines(Before), Lines(last.text), last.a, last.b)

---------------------------------------------------------------------------
(* C2 *)

\* C2: a successful insert_code(after_line, content) with
\* 1 <= after_line <= lineCount leaves the old lines 1..after_line, then the
\* lines of content once, then the old lines after after_line.
C2_InsertAfterLine ==
    (Succeeded("insert_code") /\ 1 <= last.a /\ last.a <= Len(Lines(Before)))
    => LaidOut(After, ExpectedInsert(Lines(Before), Lines(last.text), last.a))

---------------------------------------------------------------------------
(* C3 *)

\* C3: a successful insert_code with after_line = 0 leaves the lines of
\* content, once, followed by the whole old file.
C3_InsertAtStart ==
    (Succeeded("insert_code") /\ last.a = 0)
    => Lines(After) = ExpectedInsert(Lines(Before), Lines(last.text), 0)

---------------------------------------------------------------------------
(* C4 *)

\* With replace_all = false the first occurrence is replaced, every other
\* byte is kept, the N-1 later occurrences are where they were (moved by the
\* change of length), and the count reported is 1
FirstReplaced(c, search, replace, after, count) ==
    LET n == OccurrenceCount(c, search)
        f == LeftToRight(c, search)
        d == Len(replace) - Len(search)
    IN  /\ count = 1
        /\ Len(after) = Len(c) + d
        /\ Slice(after, 0, f[1]) = Slice(c, 0, f[1])
        /\ Slice(after, f[1], f[1] + Len(replace)) = replace
        /\ Slice(after, f[1] + Len(replace), Len(after)) = Slice(c, f[1] + Len(search), Len(c))
        /\ \A k \in 2..n : Slice(after, f[k] + d, f[k] + d + Len(search)) = search

\* With replace_all = true each of the N occurrences is replaced, the bytes
\* between them are kept, and the count reported is N
AllReplaced(c, search, replace, after, count) ==
    LET n == OccurrenceCount(c, search)
        f == LeftToRight(c, search)
        d == Len(replace) - Len(search)
        end(k) == IF k = 0 THEN 0 ELSE f[k] + Len(search)
        start(k) == IF k = n + 1 THEN Len(c) ELSE f[k]
    IN  /\ count = n
        /\ Len(after) = Len(c) + n * d
        /\ \A k \in 1..n : Slice(after, f[k] + (k - 1) * d, f[k] + (k - 1) * d + Len(replace)) = replace
        /\ \A k \in 0..n : Slice(after, end(k) + k * d, start(k + 1) + k * d) = Slice(c, end(k), start(k + 1))

\* C4: edit_file on a file with N >= 1 occurrences of a non-empty search
\* text replaces exactly the first one when replace_all is false and all N
\* when it is true, and reports 1 and N replacements.
C4_SearchReplaceCounts ==
    (Read("edit_file") /\ last.before.perm = "rw" /\ last.text # <<>>
        /\ OccurrenceCount(Before, last.text) >= 1)
    => /\ last.kind = "Ok"
       /\ IF last.all
          THEN AllReplaced(Before, last.text, last.repl, After, last.n)
          ELSE FirstReplaced(Before, last.text, last.repl, After, last.n)

\* edit_file with replace_all = false has replaced the first of two
\* occurrences and left the second
C4_Witness_FirstOfTwo ==
    /\ Succeeded("edit_file") /\ ~last.all /\ last.text = <<"a">>
    /\ Before = <<"a", LF, "a">> /\ last.repl = <<"x">>
    /\ After = <<"x", LF, "a">> /\ last.n = 1

---------------------------------------------------------------------------
(* C5 *)

\* C5: edit_file on an existing file without any occurrence of the search
\* text writes nothing, whatever replace_all is, and returns StringNotFound
\* (once it has read the file).
C5_AbsentSearchLeavesFile ==
    (tpc = "returned" /\ last.op = "edit_file" /\ last.before.perm # "absent"
        /\ Occurrences(Before, last.text) = {})
    => /\ Read("edit_file") => last.kind = "StringNotFound"
       /\ last.kind # "Ok"
       /\ fs[last.path] = last.before
       /\ fs["g"] = Bystander

\* edit_file with replace_all = true has not found its search text
C5_Witness_NotFound ==
    /\ Read("edit_file") /\ last.all /\ last.text = <<"a", "a">>
    /\ Before = <<"a", LF, "a">> /\ last.kind = "StringNotFound"

---------------------------------------------------------------------------
(* C6 *)

\* C6: edit_code_lines on an existing file returns InvalidPath exactly when
\* start_line = 0, end_line = 0, start_line > end_line or one of them is
\* greater than the number of lines of the file, and otherwise succeeds.
C6_EditRangeErrors ==
    Read("edit_code_lines")
    => LET n == LineCount(Before)
           bad == \/ last.a = 0 \/ last.b = 0 \/ last.a > last.b
                  \/ last.a > n \/ last.b > n
       IN  /\ last.kind = "InvalidPath" <=> bad
           /\ (~bad /\ last.before.perm = "rw") => last.kind = "Ok"
           /\ n = 0 => last.kind = "InvalidPath"

\* edit_code_lines has refused start_line > end_line on a file of three
\* lines, both numbers being lines of the file
C6_Witness_StartAfterEnd ==
    /\ Read("edit_code_lines") /\ last.a = 3 /\ last.b = 2
    /\ LineCount(Before) = 3 /\ last.kind = "InvalidPath"

---------------------------------------------------------------------------
(* C7 *)

\* The bytes are the old lines with the lines of content put in at one place
InsertedSomewhere(bytes, old, mid) ==
    \E k \in 0..Len(old) : LaidOut(bytes, ExpectedInsert(old, mid, k))

\* C7: insert_code on an existing file returns InvalidPath exactly when
\* after_line is greater than the number of lines, and for every
\* 0 <= after_line <= lineCount succeeds, having inserted the content.
C7_InsertErrors ==
    (Read("insert_code") /\ last.before.perm = "rw")
    => LET n == LineCount(Before)
       IN  /\ last.kind = "InvalidPath" <=> last.a > n
           /\ last.a <= n
              => /\ last.kind = "Ok"
                 /\ InsertedSomewhere(After, Lines(Before), Lines(last.text))

---------------------------------------------------------------------------
(* C8 *)

\* C8: the bytes a successful edit_code_lines writes are the lines kept
\* before the range, the lines of new_content and the lines kept after it,
\* separated by single line feeds with none after the last line; the file
\* "line1\nline2\nline3" edited with (2, 2, "X\nY") holds
\* "line1\nX\nY\nline3".
C8_WrittenBytes ==
    Succeeded("edit_code_lines")
    => /\ LaidOut(After, ExpectedEdit(Lines(Before), Lines(last.text), last.a, last.b))
       /\ (Before = ExampleFile /\ last.a = 2 /\ last.b = 2 /\ last.text = ExampleNew)
          => After = ExampleResult

\* The example of the specification has been run
C8_Witness_Example ==
    /\ Succeeded("edit_code_lines")
    /\ Before = ExampleFile /\ last.a = 2 /\ last.b = 2 /\ last.text = ExampleNew
    /\ After = ExampleResult

---------------------------------------------------------------------------
(* C9 *)

\* The child is waiting to write its next line to a pipe that is full
ChildBlockedOn(pipe, stream) ==
    /\ child.state = "running"
    /\ child.pc <= Len(child.script)
    /\ child.script[child.pc].stream = stream
    /\ Len(pipe.buf) = PipeCap

\* The runner is waiting for a line of a pipe that is empty and still open
RunnerBlockedOn(pipe) == pipe.buf = <<>> /\ ~pipe.closed

PipeDeadlock ==
    \/ /\ jpc = "read_stdout"
       /\ RunnerBlockedOn(stdout_pipe)
       /\ ChildBlockedOn(stderr_pipe, "stderr")
    \/ /\ jpc = "read_stderr"
       /\ RunnerBlockedOn(stderr_pipe)
       /\ ChildBlockedOn(stdout_pipe, "stdout")

\* C9: execute_job reads both streams of the child all the time the child
\* runs, so the child is never waiting to write to one full pipe while the
\* runner is waiting to read only the other.
C9_NoPipeDeadlock == ~PipeDeadlock

---------------------------------------------------------------------------
(* C10 *)

JobSucceeded == jpc = "returned" /\ jresult.kind = "Ok"

TagOf(stream) == IF stream = "stdout" THEN "[STDOUT]" ELSE "[STDERR]"

\* C10: the log of a successful execute_job is the header, then every line
\* the child wrote to stdout or stderr exactly once with the tag of its
\* stream, the lines of one stream in the order written, then the footer,
\* whose exit code is the one of the result.
C10_LogHoldsEveryLine ==
    JobSucceeded
    => LET entries == log_file.entries
           n == Len(entries)
           body == SubSeq(entries, 2, n - 1)
       IN  /\ n >= 2
           /\ entries[1] = Header
           /\ entries[n].kind = "footer"
           /\ entries[n].exit_code = jresult.exit_code
           /\ \A k \in 1..Len(body) : body[k].kind = "line"
           /\ \A i \in 1..Len(child.script) :
                 /\ Cardinality({k \in 1..Len(body) : body[k].line = i}) = 1
                 /\ \A k \in 1..Len(body) :
                       body[k].line = i => body[k].tag = TagOf(child.script[i].stream)
           /\ \A k1, k2 \in 1..Len(body) :
                 (k1 < k2 /\ body[k1].tag = body[k2].tag) => body[k1].line < body[k2].line

---------------------------------------------------------------------------
(* C11 *)

\* The lines of the child that the runner took from a pipe and could not
\* decode
FailedReads ==
    {i \in 1..Len(child.script) :
        /\ ~child.script[i].ok
        /\ i < child.pc
        /\ \A k \in 1..Len(stdout_pipe.buf) : stdout_pipe.buf[k].line # i
        /\ \A k \in 1..Len(stderr_pipe.buf) : stderr_pipe.buf[k].line # i}

\* C11: a call in which the read of a line of the child failed has returned
\* IOFailure when it has returned; it has not returned a summary
C11_FailedReadAborts ==
    (jpc = "returned" /\ FailedReads # {}) => jresult.kind = "Io"

---------------------------------------------------------------------------
(* C12 *)

\* C12: when the script was found and the call returns from finding the
\* executor or from the spawn, it returns an error, no child has started,
\* and the log is left as it was, holding the header alone; a call that has
\* returned takes no further step
C12_SpawnFailureLeavesHeader ==
    [][/\ (jpc \in {"executor", "spawn"} /\ jpc' = "returned") =>
            /\ job.script_exists
            /\ jresult'.kind \in {"InvalidPath", "Io"}
            /\ child' = NoChild
            /\ log_file' = log_file
            /\ log_file = [exists |-> TRUE, entries |-> <<Header>>]
       /\ jpc = "returned" => UNCHANGED vars]_vars

C12_Witness_SpawnFailed ==
    /\ jpc = "returned"
    /\ jresult.kind = "Io"
    /\ child = NoChild
    /\ job.script_exists
    /\ HasFileName(job.script_path)
    /\ log_file.entries = <<Header>>

---------------------------------------------------------------------------
(* C13 *)

\* C13: when no file is at script_path, the log is what it was before the
\* call, missing or with its old entries, no child has started, and the
\* call returns NotFound from its first step
C13_MissingScriptNoSideEffect ==
    ~job.script_exists =>
        /\ log_file \in {NoFile, OldLog}
        /\ child = NoChild
        /\ jpc \in {"idle", "start", "returned"}
        /\ jpc = "returned" => jresult.kind = "FileNotFound"

C13_Witness_OldLogKept ==
    /\ jpc = "returned"
    /\ ~job.script_exists
    /\ job.output_file = "out.log"
    /\ log_file = OldLog
    /\ jresult.kind = "FileNotFound"

---------------------------------------------------------------------------
(* C14 *)

\* The interpreter of each extension that has one
Interpreters ==
    [e \in {"py", "sh", "js", "rb", "pl"} |->
        IF e = "py" THEN "python" ELSE IF e = "sh" THEN "bash"
        ELSE IF e = "js" THEN "node" ELSE IF e = "rb" THEN "ruby" ELSE "perl"]

\* C14: the child was started as the interpreter of the extension of the
\* script with the script file name as its one argument, and for any other
\* extension or none as ./<script file name> with no argument
C14_ExecutorByExtension ==
    child.state # "none" =>
        LET ext == job.script_path.ext
            name == <<job.script_path.stem, ext>>
        IN  IF ext \in DOMAIN Interpreters
            THEN child.program = <<Interpreters[ext]>> /\ child.args = <<name>>
            ELSE child.program = <<"./", name>> /\ child.args = <<>>

C14_Witness_PerlAndDirect ==
    /\ child.state # "none"
    /\ job.script_path.ext \in {"pl", "exe"}
    /\ job.script_path.ext = "pl" => child.program = <<"perl">>
    /\ job.script_path.ext = "exe" => child.program = <<"./", <<"tool", "exe">>>>

---------------------------------------------------------------------------
(* What the claims about analyze_codebase speak of *)

\* The call has returned a bundle
Analyzed == apc = "returned" /\ aresult.kind = "Ok"

\* The files whose content is in the bundle, by the manifest step and by
\* the code-file walk, and the entries the structure tree shows
ManifestEmbedded ==
    {aresult.bundle.config[i].content.of : i \in 1..Len(aresult.bundle.config)}
CodeEmbedded == {x.content.of : x \in aresult.bundle.code}
Rendered == {e.entry : e \in aresult.bundle.structure}

\* The path of an entry as a string, and whether a deny-listed string
\* occurs in it
RECURSIVE FullPath(_)
FullPath(p) ==
    IF p = <<>> THEN analyze.path
    ELSE FullPath(SubSeq(p, 1, Len(p) - 1)) \o <<"/">> \o p[Len(p)]
DeniedPath(p) == \E d \in skip_dirs : Occurrences(FullPath(p), d) # {}

\* The entries above an entry, the root among them, and those with itself
Above(p) == {SubSeq(p, 1, n) : n \in 0..(Len(p) - 1)}
UpTo(p) == Above(p) \cup {p}

\* An entry a walk can come to: it exists, every directory above it can be
\* listed, and no deny-listed string occurs in its path
Reachable(p) ==
    /\ disk[p].kind # "none"
    /\ \A q \in Above(p) : disk[q].kind = "dir" /\ disk[q].readable
    /\ ~DeniedPath(p)

\* The manifest files and the code files among the entries
Manifests == {CargoToml, GitIgnore}
Sources == {CargoToml, MainRs, DeepMakefile, PagePy}

---------------------------------------------------------------------------
(* C15 *)

\* C15: every file whose content is in the bundle, the manifest files
\* among them, is shorter than max_file_size and no deeper than max_depth;
\* a file of max_file_size bytes or more is not in the bundle, and the call
\* on a directory does not fail
C15_EmbeddedWithinLimits ==
    /\ Analyzed =>
          /\ \A p \in ManifestEmbedded \cup CodeEmbedded :
                disk[p].len < analyze.max_file_size /\ Len(p) <= analyze.max_depth
          /\ \A p \in Universe :
                (disk[p].kind = "file" /\ disk[p].len >= analyze.max_file_size)
                    => p \notin ManifestEmbedded \cup CodeEmbedded
    /\ (apc = "returned" /\ disk[Root].kind = "dir") => aresult.kind = "Ok"

---------------------------------------------------------------------------
(* C16 *)

\* C16, as stated: no entry in whose path a deny-listed string occurs is
\* shown in the structure tree or has its content in the bundle
C16_NoDeniedPathInBundle ==
    Analyzed =>
        \A p \in Rendered \cup ManifestEmbedded \cup CodeEmbedded : ~DeniedPath(p)

\* C16, amended: no entry in whose path a deny-listed string occurs, the
\* root path and file names counted, is shown in the structure tree or has
\* its content embedded by the code-file walk, nor is any entry beneath one
C16_WalksSkipDenied ==
    Analyzed =>
        \A p \in Rendered \cup CodeEmbedded : \A q \in UpTo(p) : ~DeniedPath(q)

C16_Witness_LayoutPruned ==
    /\ Analyzed
    /\ analyze.path = Proj
    /\ analyze.max_depth >= 2
    /\ disk[PagePy] = FileEntry(TRUE, 1)
    /\ analyze.max_file_size > 1
    /\ MainRs \in CodeEmbedded
    /\ PagePy \notin CodeEmbedded
    /\ Layout \notin Rendered
    /\ Src \in Rendered

---------------------------------------------------------------------------
(* C17 *)

\* C17: the call returns NotFound exactly when nothing is at the path and
\* InvalidPath exactly when something other than a directory is; then it
\* returns no bundle, and on a directory it returns Ok
C17_OnlyTwoErrors ==
    apc = "returned" =>
        /\ aresult.kind = "FileNotFound" <=> disk[Root].kind = "none"
        /\ aresult.kind = "InvalidPath" <=> disk[Root].kind = "file"
        /\ aresult.kind = "Ok" <=> disk[Root].kind = "dir"
        /\ aresult.kind # "Ok" => aresult.bundle = NoBundle

C17_Witness_NotADirectory ==
    /\ apc = "returned"
    /\ disk[Root].kind = "file"
    /\ aresult.kind = "InvalidPath"
    /\ aresult.bundle = NoBundle

---------------------------------------------------------------------------
(* C18 *)

\* C18: the call on a directory returns a bundle whatever cannot be read;
\* the bundle holds every manifest file that reads, every code file a walk
\* can come to that reads and is within the limits, and shows every entry
\* the structure walk can come to; a file that does not read is not in it
C18_UnreadableOnlyOmitted ==
    (apc = "returned" /\ disk[Root].kind = "dir") =>
        /\ aresult.kind = "Ok"
        /\ \A p \in Manifests :
              (disk[p].kind = "file" /\ disk[p].readable) => p \in ManifestEmbedded
        /\ \A p \in Sources :
              (/\ Reachable(p)
               /\ disk[p].kind = "file" /\ disk[p].readable
               /\ disk[p].len < analyze.max_file_size
               /\ Len(p) <= analyze.max_depth) => p \in CodeEmbedded
        /\ \A p \in Universe :
              (/\ Reachable(p)
               /\ Len(p) <= StructureDepth
               /\ disk[p].kind = "dir" \/ Len(p) <= FileRenderDepth) => p \in Rendered
        /\ \A p \in Universe :
              (disk[p].kind = "file" /\ ~disk[p].readable)
                  => p \notin ManifestEmbedded \cup CodeEmbedded

C18_Witness_UnreadableManifest ==
    /\ Analyzed
    /\ disk[CargoToml] = FileEntry(FALSE, 1)
    /\ CargoToml \notin ManifestEmbedded \cup CodeEmbedded
    /\ disk[GitIgnore].kind = "file"
    /\ GitIgnore \in ManifestEmbedded
    /\ disk[MainRs].kind = "file"
    /\ MainRs \in CodeEmbedded

---------------------------------------------------------------------------
(* What the claims about the context store speak of *)

\* The number of entries of a store
Entries(store) == Cardinality(DOMAIN store)

\* The header of the section of each key: the key in upper case
HeaderOf == (<<"k">> :> <<"K">>) @@ (<<"K">> :> <<"K">>) @@ (<<"j">> :> <<"J">>)

\* The sections are one for each entry of the store, in some order
OneSectionPerEntry(sections, store) ==
    \E order \in [1..Len(sections) -> DOMAIN store] :
        /\ \A k \in DOMAIN store : \E i \in 1..Len(sections) : order[i] = k
        /\ \A i, j \in 1..Len(sections) : order[i] = order[j] => i = j
        /\ \A i \in 1..Len(sections) :
              sections[i] = [header |-> HeaderOf[order[i]], content |-> store[order[i]]]

---------------------------------------------------------------------------
(* C19 *)

\* C19: the update of set_context(key, content) puts content under key and
\* leaves every other entry, making one entry more for a new key and as
\* many for an existing one; the store stays as updated until the call
\* returns, and the call returns Ok with the number of entries of the store
C19_SetContextStoresAndCounts ==
    [][\A t \in Callers :
          LET c == callers[t]
          IN  /\ (c.pc = "insert" /\ callers'[t].pc # "insert") =>
                    /\ DOMAIN context' = DOMAIN context \cup {c.key}
                    /\ context'[c.key] = c.content
                    /\ \A k \in DOMAIN context \ {c.key} : context'[k] = context[k]
                    /\ Entries(context') =
                          Entries(context) + (IF c.key \in DOMAIN context THEN 0 ELSE 1)
              /\ c.pc = "format" =>
                    /\ context' = context
                    /\ callers'[t].pc # "format" =>
                          /\ callers'[t].pc = "returned"
                          /\ callers'[t].result.kind = "stored"
                          /\ callers'[t].result.count = Entries(context)
                          /\ context[c.key] = c.content]_vars

C19_Witness_Overwritten ==
    \E t \in Callers :
        /\ callers[t].pc = "returned"
        /\ callers[t].op = "set"
        /\ callers[t].result.count = 2
        /\ callers[t].content = "v2"
        /\ Entries(context) = 2
        /\ context[callers[t].key] = "v2"
        /\ \E u \in Callers \ {t} :
              /\ callers[u].pc = "returned"
              /\ callers[u].op = "set"
              /\ callers[u].key = callers[t].key
              /\ callers[u].content = "v1"
              /\ callers[u].result.count = 2

---------------------------------------------------------------------------
(* C20 *)

\* C20: get_all_context returns the sentinel exactly when the store has no
\* entry, and else one section for each entry, headed by the key in upper
\* case, with the content the entry has; from the lock to the return the
\* store is left as it was
C20_GetAllContextRenders ==
    [][\A t \in Callers :
          LET c == callers[t]
          IN  c.pc \in {"check", "iterate"} =>
                  /\ context' = context
                  /\ callers'[t].pc = "returned" =>
                        /\ callers'[t].result.kind \in {"sentinel", "rendered"}
                        /\ callers'[t].result.kind = "sentinel" <=> DOMAIN context = {}
                        /\ callers'[t].result.kind = "rendered" =>
                              OneSectionPerEntry(callers'[t].result.sections, context)]_vars

C20_Witness_TwoSectionsSameHeader ==
    \E t \in Callers :
        /\ callers[t].pc = "returned"
        /\ callers[t].op = "get"
        /\ callers[t].result.kind = "rendered"
        /\ callers[t].result.sections =
              <<[header |-> <<"K">>, content |-> "v1"], [header |-> <<"K">>, content |-> "v2"]>>
        /\ DOMAIN context = {<<"k">>, <<"K">>}

---------------------------------------------------------------------------
(* C21 *)

\* The caller is between taking the lock and its return
InCall(t) == callers[t].pc \in {"insert", "format", "check", "iterate"}

\* The entries of a store under the keys of S
Restrict(store, S) == [k \in S |-> store[k]]

\* C21: with two callers on clones of the store, no two calls are between
\* lock and return at once; while a call is, the store changes by its own
\* insertion only; what get_all_context has rendered so far is the store as
\* it is, for the keys it has come to; and set_context returns the number
\* of entries of the store in which its own insertion is the last update
C21_CallsAtomic ==
    [][\A t \in Callers :
          InCall(t) =>
              /\ \A u \in Callers \ {t} : ~InCall(u)
              /\ context' # context =>
                    callers[t].pc = "insert" /\ callers'[t].pc = "format"
              /\ callers[t].pc = "iterate" =>
                    /\ callers[t].todo \subseteq DOMAIN context
                    /\ OneSectionPerEntry(callers[t].out,
                                          Restrict(context, DOMAIN context \ callers[t].todo))
              /\ (callers[t].pc = "format" /\ callers'[t].pc = "returned") =>
                    /\ context[callers[t].key] = callers[t].content
                    /\ callers'[t].result.count = Entries(context)]_vars

\* A caller waits for the lock to set a key while the other is rendering
C21_Witness_SetWaitsForGet ==
    \E t, u \in Callers :
        /\ callers[t].pc = "iterate"
        /\ Len(callers[t].out) = 1
        /\ callers[t].todo # {}
        /\ mutex = t
        /\ callers[u].pc = "lock"
        /\ callers[u].op = "set"
        /\ callers[u].key \in callers[t].todo

---------------------------------------------------------------------------
(* C28 *)

\* The caller makes its insertion in this step
Inserts(t) == callers[t].pc = "insert" /\ callers'[t].pc = "format"

---------------------------------------------------------------------------
(* C26 *)

\* C26: when edit_code_lines or insert_code has returned an error, the file
\* it names is as it was before the call, a missing one still missing, and
\* the file beside it is as it was
C26_ErrorWritesNothing ==
    (/\ tpc = "returned"
     /\ last.op \in {"edit_code_lines", "insert_code"}
     /\ last.kind # "Ok") =>
        /\ fs[last.path] = last.before
        /\ last.kind = "FileNotFound" => fs[last.path] = Absent
        /\ \A other \in Paths \ {last.path} : fs[other] = Bystander

C26_Witness_OutOfRangeInsert ==
    /\ tpc = "returned"
    /\ last.op = "insert_code"
    /\ last.kind = "InvalidPath"
    /\ last.before.perm = "rw"
    /\ last.text # <<>>
    /\ fs[last.path] = last.before

---------------------------------------------------------------------------
(* C25 *)

\* The file a started child is asked to run: its argument, or its program
\* for a direct execution, is the script file name alone, which the child
\* resolves in the directory it was started in
FileRun == [parent |-> child.current_dir, name |-> <<job.script_path.stem, job.script_path.ext>>]

\* The file at script_path, whose existence the call checked
FileChecked ==
    [parent |-> job.script_path.parent, name |-> <<job.script_path.stem, job.script_path.ext>>]

\* C25: a started child runs in the working directory the caller gave,
\* else in the directory of the script, and the file it is asked to run is
\* the file at script_path
C25_ChildRunsScriptPath ==
    child.state # "none" =>
        /\ child.current_dir =
              (IF job.working_directory # None THEN job.working_directory
               ELSE job.script_path.parent)
        /\ FileRun = FileChecked

---------------------------------------------------------------------------
(* What the claims about the summary of execute_job speak of *)

\* The captured lines as the log has them, between header and footer
LoggedLines == SelectSeq(log_file.entries, LAMBDA e : e.kind = "line")

---------------------------------------------------------------------------
(* C24 *)

\* C24: the summary of a successful execute_job has the exit code of the
\* child, -1 for a child ended by a signal, and its preview is the last
\* min(10, n) of the n lines of the log, in the order of the log
C24_PreviewIsLastLines ==
    JobSucceeded =>
        LET n == Len(LoggedLines)
            shown == Len(jresult.preview)
        IN  /\ jresult.exit_code = (IF child.status.signaled THEN -1 ELSE child.status.code)
            /\ shown = (IF n < 10 THEN n ELSE 10)
            /\ \A i \in 1..shown :
                  /\ jresult.preview[i].tag = LoggedLines[n - shown + i].tag
                  /\ jresult.preview[i].line = LoggedLines[n - shown + i].line

C24_Witness_ElevenLines ==
    /\ JobSucceeded
    /\ Len(LoggedLines) = 11
    /\ Len(jresult.preview) = 10
    /\ jresult.preview[1].line = LoggedLines[2].line
    /\ jresult.preview[1].line # LoggedLines[1].line

---------------------------------------------------------------------------
(* C27 *)

\* No line of stderr comes before a line of stdout
StdoutFirst(lines) ==
    \A i, j \in 1..Len(lines) :
        (lines[i].tag = "[STDERR]" /\ lines[j].tag = "[STDOUT]") => j < i

\* C27: in the log and in the preview of a successful execute_job every
\* [STDOUT] line comes before every [STDERR] line, in whatever order the
\* child wrote them; and when the child wrote 10 lines or more to stderr
\* the preview has no [STDOUT] line
C27_StdoutBeforeStderr ==
    JobSucceeded =>
        /\ StdoutFirst(LoggedLines)
        /\ StdoutFirst(jresult.preview)
        /\ Cardinality({i \in 1..Len(child.script) : child.script[i].stream = "stderr"}) >= 10
              => \A i \in 1..Len(jresult.preview) : jresult.preview[i].tag # "[STDOUT]"

\* The child wrote ten lines to stderr and then one to stdout
C27_Witness_StderrWrittenFirst ==
    /\ JobSucceeded
    /\ Len(child.script) = 11
    /\ child.script[1].stream = "stderr"
    /\ child.script[11].stream = "stdout"
    /\ LoggedLines[1].tag = "[STDOUT]"
    /\ LoggedLines[1].line = 11
    /\ \A i \in 1..Len(jresult.preview) : jresult.preview[i].tag = "[STDERR]"

---------------------------------------------------------------------------
(* What the claims about read_file, write_file and list_files speak of *)

\* The directories above a path, the current directory apart
Ancestors(path) == {SubSeq(path, 1, i) : i \in 1..(Len(path) - 1)}

\* The number of bytes of a content: one for "a", two for EACUTE
Bytes(content) ==
    Cardinality({i \in DOMAIN content : content[i] = "a"})
        + 2 * Cardinality({i \in DOMAIN content : content[i] = EACUTE})

WroteOk(call) == call.op = "write_file" /\ call.kind = "Ok"

---------------------------------------------------------------------------
(* C22 *)

\* C22: a call in which the OS refused access returns PermissionDenied, and
\* a call returns Io only for a fault that is neither a missing path nor an
\* access refusal.
C22_RefusalIsPermissionDenied ==
    flast.op # "none" =>
        /\ flast.os_error = "EACCES" => flast.kind = "PermissionDenied"
        /\ flast.kind = "Io" => flast.os_error \notin {"none", "ENOENT", "EACCES"}

---------------------------------------------------------------------------
(* C23 *)

---------------------------------------------------------------------------
(* C29 *)

\* The children a listing is to show
Shown(children, include_hidden) ==
    {c \in children : include_hidden \/ c.name[1] # "."}

EntryTag(c) ==
    IF c.is_dir THEN <<"[", "D", "I", "R", "]">> ELSE <<"[", "F", "I", "L", "E", "]">>
Begins(line, tag) == Len(line) >= Len(tag) /\ SubSeq(line, 1, Len(tag)) = tag
Ends(line, tail) ==
    Len(line) >= Len(tail) /\ SubSeq(line, Len(line) - Len(tail) + 1, Len(line)) = tail
EntryOf(line, c) == Begins(line, EntryTag(c)) /\ Ends(line, <<" ">> \o c.name)

\* C29: list_files returns NotFound for a missing path and InvalidArgument
\* for a path that is not a directory; for a directory it returns one entry
\* per direct child, tagged [DIR] or [FILE], without the names that begin
\* with "." unless include_hidden is set, in ascending order, every [DIR]
\* entry before every [FILE] entry.
C29_OneEntryPerChild ==
    lresult.kind # "none" =>
        /\ ldir.kind = "none" => lresult.kind = "FileNotFound"
        /\ ldir.kind = "file" => lresult.kind = "InvalidPath"
        /\ (ldir.kind = "dir" /\ ldir.readable) =>
              LET shown == Shown(ldir.children, largs.include_hidden)
                  entries == lresult.entries
              IN  /\ lresult.kind = "Ok"
                  /\ Len(entries) = Cardinality(shown)
                  /\ \A c \in shown : \E i \in DOMAIN entries : EntryOf(entries[i], c)
                  /\ \A i, j \in DOMAIN entries : i < j => Less(entries[i], entries[j])
                  /\ \A i, j \in DOMAIN entries :
                        (Begins(entries[i], <<"[", "D">>) /\ Begins(entries[j], <<"[", "F">>))
                            => i < j

=============================================================================
